---- MODULE Spec2Model ----
(***************************************************************************)
(* Verification model of the blob storage of thatique/awan: the local      *)
(* filesystem driver (blob/fileblob) and the portable facade (blob).       *)
(*                                                                         *)
(* Strings are sequences of one-character strings.  The bucket directory   *)
(* is a function from relative slash-separated paths to directory entries. *)
(***************************************************************************)
EXTENDS Integers, Sequences, FiniteSets, TLC

(***************************************************************************)
(* Strings and their byte order                                            *)
(***************************************************************************)

\* The characters the model uses, in increasing byte order.
Alphabet ==
    << "-", ".", "/", "0", "1", "2", "3", "_", "a", "b", "c", "d", "e", "f",
       "i", "l", "m", "o", "p", "r", "s", "t", "x", "y" >>

Ord(c) == CHOOSE i \in 1..Len(Alphabet) : Alphabet[i] = c

\* Go's string comparison s < t: bytewise lexicographic.
RECURSIVE StrLess(_, _)
StrLess(s, t) ==
    IF t = <<>> THEN FALSE
    ELSE IF s = <<>> THEN TRUE
    ELSE IF Head(s) = Head(t) THEN StrLess(Tail(s), Tail(t))
    ELSE Ord(Head(s)) < Ord(Head(t))

StrLeq(s, t) == s = t \/ StrLess(s, t)

\* strings.HasPrefix
HasPrefix(s, p) == Len(s) >= Len(p) /\ SubSeq(s, 1, Len(p)) = p

\* strings.HasSuffix
HasSuffix(s, x) == Len(s) >= Len(x) /\ SubSeq(s, Len(s) - Len(x) + 1, Len(s)) = x

\* strings.Index: 0-based index of the first occurrence of d in s, or -1.
Index(s, d) ==
    LET hits == { i \in 0..(Len(s) - Len(d)) : SubSeq(s, i + 1, i + Len(d)) = d }
    IN  IF hits = {} THEN -1 ELSE CHOOSE i \in hits : \A j \in hits : i <= j

\* s[n:]
Drop(s, n) == SubSeq(s, n + 1, Len(s))

\* A set of strings as the sequence sorted by sort.Strings.
RECURSIVE SortStrings(_)
SortStrings(S) ==
    IF S = {} THEN <<>>
    ELSE LET m == CHOOSE x \in S : \A y \in S : StrLeq(x, y)
         IN  <<m>> \o SortStrings(S \ {m})

Slash == <<"/">>

(***************************************************************************)
(* Key codec (fileblob.go escapeBlobKey / unescapeBlobKey)                 *)
(***************************************************************************)

\* The hexadecimal digits of a character's code point, as fmt's %x prints them.
HexOf(c) ==
    CASE c = "/" -> <<"2", "f">>
      [] c = "-" -> <<"2", "d">>
      [] c = "." -> <<"2", "e">>

\* escape.HexEscape's replacement for one rune: "__0x<hex>__".
HexEscapeRune(c) == <<"_", "_", "0", "x">> \o HexOf(c) \o <<"_", "_">>

\* The runes escapeBlobKey's callback can return true for, on a platform
\* whose path separator is "/" (runes below 32 are outside Alphabet).
Escapable == {"/"}

\* The callback escapeBlobKey hands to HexEscape; i is the 1-based position.
ShouldEscape(r, i) ==
    LET c == r[i] IN
    \/ i > 2 /\ c = "/" /\ r[i-1] = "." /\ r[i-2] = "."
    \/ i > 1 /\ c = "/" /\ r[i-1] = "/"
    \/ c = "/" /\ i = Len(r)

RECURSIVE HexEscapeFrom(_, _)
HexEscapeFrom(r, i) ==
    IF i > Len(r) THEN <<>>
    ELSE (IF ShouldEscape(r, i) THEN HexEscapeRune(r[i]) ELSE <<r[i]>>)
         \o HexEscapeFrom(r, i + 1)

escapeBlobKey(s) == HexEscapeFrom(s, 1)

\* escape.HexUnescape: every "__0x<hex>__" becomes the rune it names.
RECURSIVE unescapeBlobKey(_)
unescapeBlobKey(s) ==
    IF s = <<>> THEN <<>>
    ELSE IF \E c \in Escapable : HasPrefix(s, HexEscapeRune(c))
         THEN LET c == CHOOSE d \in Escapable : HasPrefix(s, HexEscapeRune(d))
              IN  <<c>> \o unescapeBlobKey(Drop(s, Len(HexEscapeRune(c))))
         ELSE <<Head(s)>> \o unescapeBlobKey(Tail(s))

(***************************************************************************)
(* Paths relative to the bucket directory                                  *)
(***************************************************************************)

RECURSIVE SplitSlash(_)
SplitSlash(s) ==
    LET i == Index(s, Slash)
    IN  IF i = -1 THEN <<s>>
        ELSE <<SubSeq(s, 1, i)>> \o SplitSlash(Drop(s, i + 1))

RECURSIVE JoinSlash(_)
JoinSlash(comps) ==
    IF comps = <<>> THEN <<>>
    ELSE IF Len(comps) = 1 THEN comps[1]
    ELSE comps[1] \o Slash \o JoinSlash(Tail(comps))

DotDot == <<".", ".">>

\* filepath.Clean on the part of the path below b.dir: empty and "."
\* elements are dropped, ".." removes the element before it.
RECURSIVE CleanComps(_, _)
CleanComps(comps, acc) ==
    IF comps = <<>> THEN acc
    ELSE LET c == Head(comps) IN
         IF c = <<>> \/ c = <<".">> THEN CleanComps(Tail(comps), acc)
         ELSE IF c = DotDot /\ acc # <<>> /\ acc[Len(acc)] # DotDot
              THEN CleanComps(Tail(comps), SubSeq(acc, 1, Len(acc) - 1))
              ELSE CleanComps(Tail(comps), Append(acc, c))

\* filepath.Join(b.dir, rel), as the path relative to b.dir.
JoinDir(rel) == JoinSlash(CleanComps(SplitSlash(rel), <<>>))

\* filepath.Dir of a relative path; <<>> is the bucket directory itself.
DirOf(p) ==
    LET comps == SplitSlash(p)
    IN  JoinSlash(SubSeq(comps, 1, Len(comps) - 1))

\* filepath.Base of a relative path.
BaseOf(p) == LET comps == SplitSlash(p) IN comps[Len(comps)]

\* The directories above p, outermost first (what os.MkdirAll walks).
Ancestors(p) ==
    LET comps == SplitSlash(p)
    IN  [i \in 1..(Len(comps) - 1) |-> JoinSlash(SubSeq(comps, 1, i))]

attrsExt == <<".", "a", "t", "t", "r", "s">>

fileBlobSysTmp ==
    <<"f", "i", "l", "e", "b", "l", "o", "b", ".", "s", "y", "s", ".", "t", "m", "p">>

\* A path mapping that does not guard the reserved extension.
pathUnguarded(key) == [err |-> "nil", path |-> JoinDir(escapeBlobKey(key))]

\* bucket.path: the path for a key, or the reserved-extension error.
path(key) ==
    LET p == JoinDir(escapeBlobKey(key))
    IN  IF HasSuffix(p, attrsExt) THEN [err |-> "errAttrsExt", path |-> <<>>]
        ELSE [err |-> "nil", path |-> p]

(***************************************************************************)
(* The bucket directory                                                    *)
(*                                                                         *)
(* A directory entry is a directory or a file.  A file has an inode        *)
(* identity `ino`, its bytes `data`, and `json`: the sequence of JSON      *)
(* values a decoder finds in it (a side-record file holds one xattrs       *)
(* value, a file that os.Create has just truncated holds none).            *)
(***************************************************************************)

DirEntry == [type |-> "dir"]

FileEntry(ino, data, json) == [type |-> "file", ino |-> ino, data |-> data, json |-> json]

Exists(fs, p) == p = <<>> \/ p \in DOMAIN fs

IsDir(fs, p) == p = <<>> \/ (p \in DOMAIN fs /\ fs[p].type = "dir")

IsFile(fs, p) == p \in DOMAIN fs /\ fs[p].type = "file"

Put(fs, p, e) == [q \in DOMAIN fs \cup {p} |-> IF q = p THEN e ELSE fs[q]]

Unlink(fs, p) == [q \in DOMAIN fs \ {p} |-> fs[q]]

\* The names in directory d.
DirNames(fs, d) == { BaseOf(p) : p \in { q \in DOMAIN fs : DirOf(q) = d } }

\* os.Remove: unlinks a file or removes an empty directory.
CanRemove(fs, p) ==
    \/ IsFile(fs, p)
    \/ p \in DOMAIN fs /\ fs[p].type = "dir" /\ DirNames(fs, p) = {}

Remove(fs, p) == IF CanRemove(fs, p) THEN Unlink(fs, p) ELSE fs

\* os.MkdirAll(d): fails when d or a directory above it is a file.
CanMkdirAll(fs, d) ==
    /\ ~IsFile(fs, d)
    /\ \A i \in DOMAIN Ancestors(d) : ~IsFile(fs, Ancestors(d)[i])

\* A MkdirAll that makes d anew, without what was in it.
MkdirAllAnew(fs, d) ==
    LET dirs == IF d = <<>> THEN {} ELSE {d} \cup { Ancestors(d)[i] : i \in DOMAIN Ancestors(d) }
        kept == { p \in DOMAIN fs : ~HasPrefix(p, d \o Slash) }
    IN  [q \in kept \cup dirs |-> IF q \in kept THEN fs[q] ELSE DirEntry]

MkdirAll(fs, d) ==
    LET dirs == IF d = <<>> THEN {} ELSE {d} \cup { Ancestors(d)[i] : i \in DOMAIN Ancestors(d) }
    IN  [q \in DOMAIN fs \cup dirs |-> IF q \in DOMAIN fs THEN fs[q] ELSE DirEntry]

\* A rename that leaves a file that already exists at new in place.
RenameNoReplace(fs, old, new) ==
    IF new \in DOMAIN fs THEN Unlink(fs, old) ELSE Unlink(Put(fs, new, fs[old]), old)

\* os.Rename(old, new) of a file: atomically replaces a file at new;
\* fails when old is gone, new is a directory, or new's directory is missing.
CanRename(fs, old, new) ==
    /\ IsFile(fs, old)
    /\ ~(new \in DOMAIN fs /\ fs[new].type = "dir")
    /\ new # <<>>
    /\ IsDir(fs, DirOf(new))

Rename(fs, old, new) == Unlink(Put(fs, new, fs[old]), old)

(***************************************************************************)
(* Digests                                                                 *)
(***************************************************************************)

\* crypto/md5 as an injective function of its input.
MD5(bytes) == [md5 |-> bytes]

\* blobutil.ToS3ETag(hex.EncodeToString(sum)): the hex digest, then "-1".
ToS3ETag(sum) == [hex |-> sum, suffix |-> 1]

NoMD5 == [md5 |-> <<-1>>]

NoETag == [hex |-> NoMD5, suffix |-> 0]

(***************************************************************************)
(* Attribute side-store (setAttrs / getAttrs)                              *)
(***************************************************************************)

NoOpts ==
    [CacheControl |-> "", ContentDisposition |-> "", ContentEncoding |-> "",
     ContentLanguage |-> "", Metadata |-> <<>>]

xattrs(opts, contentType) ==
    [CacheControl |-> opts.CacheControl,
     ContentDisposition |-> opts.ContentDisposition,
     ContentEncoding |-> opts.ContentEncoding,
     ContentLanguage |-> opts.ContentLanguage,
     ContentType |-> contentType,
     Metadata |-> opts.Metadata,
     MD5 |-> NoMD5,
     ETag |-> NoETag,
     Parts |-> <<>>]

\* What getAttrs returns when there is no side-record file.
DefaultAttrs == xattrs(NoOpts, "application/octet-stream")

\* getAttrs: the decoded side-record, the default when the file is absent,
\* an error when the file cannot be opened or holds no JSON value.
getAttrs(fs, p) ==
    LET ap == p \o attrsExt IN
    IF ap \notin DOMAIN fs THEN [err |-> "nil", xa |-> DefaultAttrs]
    ELSE IF fs[ap].type = "dir" \/ fs[ap].json = <<>>
         THEN [err |-> "decode", xa |-> DefaultAttrs]
         ELSE [err |-> "nil", xa |-> fs[ap].json[1]]

\* setAttrs, first half: os.Create(path + attrsExt) truncates an existing
\* file (keeping its inode) or creates a new one.
CanCreateAttrs(fs, p) ==
    /\ ~IsDir(fs, p \o attrsExt)
    /\ IsDir(fs, DirOf(p \o attrsExt))

CreateAttrs(fs, p, ino) ==
    LET ap == p \o attrsExt IN
    Put(fs, ap, FileEntry(IF IsFile(fs, ap) THEN fs[ap].ino ELSE ino, <<>>, <<>>))

\* setAttrs, second half: the encoder writes the record through the open
\* descriptor, i.e. into inode ino wherever it is still linked.
EncodeAttrs(fs, p, ino, xa) ==
    LET ap == p \o attrsExt IN
    IF IsFile(fs, ap) /\ fs[ap].ino = ino
    THEN Put(fs, ap, FileEntry(ino, <<>>, <<xa>>))
    ELSE fs

(***************************************************************************)
(* bucket.ListPaged                                                        *)
(***************************************************************************)

defaultPageSize == 1000

ListOptions(prefix, delimiter, pageSize, pageToken) ==
    [Prefix |-> prefix, Delimiter |-> delimiter, PageSize |-> pageSize,
     PageToken |-> pageToken]

PageSizeOf(opts) == IF opts.PageSize = 0 THEN defaultPageSize ELSE opts.PageSize

\* The variables the walk callback closes over.
WalkState0 == [Objects |-> <<>>, NextPageToken |-> <<>>, lastPrefix |-> <<>>]

WalkNil(st) == [st |-> st, err |-> "nil"]

WalkSkipDir(st) == [st |-> st, err |-> "SkipDir"]

\* The callback for a directory.
WalkFnDir(opts, p, st) ==
    LET key == unescapeBlobKey(p) \o Slash IN
    IF HasPrefix(key, fileBlobSysTmp) THEN WalkSkipDir(st)
    ELSE IF Len(key) > Len(opts.Prefix) /\ ~HasPrefix(key, opts.Prefix) THEN WalkSkipDir(st)
    ELSE IF st.lastPrefix # <<>> /\ HasPrefix(key, st.lastPrefix) THEN WalkSkipDir(st)
    ELSE WalkNil(st)

\* The last two tests of the callback: the page token, then the page size.
WalkEmit(opts, obj, st) ==
    IF opts.PageToken # <<>> /\ StrLeq(obj.Key, opts.PageToken) THEN WalkNil(st)
    ELSE IF Len(st.Objects) = PageSizeOf(opts)
         THEN [st  |-> [st EXCEPT !.NextPageToken = st.Objects[PageSizeOf(opts)].Key],
               err |-> "EOF"]
         ELSE WalkNil([st EXCEPT !.Objects = Append(st.Objects, obj)])

\* The callback for a file.
WalkFnFile(fs, opts, p, st) ==
    LET key == unescapeBlobKey(p) IN
    IF ~HasPrefix(key, opts.Prefix) THEN WalkNil(st)
    ELSE LET keyWithoutPrefix == Drop(key, Len(opts.Prefix))
             idx == IF opts.Delimiter = <<>> THEN -1
                    ELSE Index(keyWithoutPrefix, opts.Delimiter)
             prefix == opts.Prefix \o SubSeq(keyWithoutPrefix, 1, idx + Len(opts.Delimiter))
         IN  IF idx = -1
             THEN WalkEmit(opts, [Key |-> key, IsDir |-> FALSE, Size |-> Len(fs[p].data)], st)
             ELSE IF prefix = st.lastPrefix THEN WalkNil(st)
             ELSE WalkEmit(opts, [Key |-> prefix, IsDir |-> TRUE, Size |-> 0],
                           [st EXCEPT !.lastPrefix = prefix])

\* The function ListPaged hands to filepath.Walk.
WalkFn(fs, opts, p, st) ==
    IF HasSuffix(p, attrsExt) THEN WalkNil(st)
    ELSE IF p = <<>> THEN WalkNil(st)
    ELSE IF IsDir(fs, p) THEN WalkFnDir(opts, p, st)
    ELSE WalkFnFile(fs, opts, p, st)

JoinPath(d, name) == IF d = <<>> THEN name ELSE d \o Slash \o name

\* filepath.Walk: the callback on p, then, for a directory, its names in
\* sort.Strings order; SkipDir from a directory skips only that directory.
RECURSIVE walk(_, _, _, _), walkNames(_, _, _, _, _)
walk(fs, opts, p, st) ==
    IF ~IsDir(fs, p) THEN WalkFn(fs, opts, p, st)
    ELSE LET r == WalkFn(fs, opts, p, st) IN
         IF r.err # "nil" THEN r
         ELSE walkNames(fs, opts, p, SortStrings(DirNames(fs, p)), r.st)

walkNames(fs, opts, d, names, st) ==
    IF names = <<>> THEN WalkNil(st)
    ELSE LET child == JoinPath(d, Head(names))
             r == walk(fs, opts, child, st)
         IN  IF r.err # "nil" /\ (~IsDir(fs, child) \/ r.err # "SkipDir") THEN r
             ELSE walkNames(fs, opts, d, Tail(names), r.st)

ListPaged(fs, opts) ==
    LET r == walk(fs, opts, <<>>, WalkState0)
    IN  [Objects |-> r.st.Objects, NextPageToken |-> r.st.NextPageToken]

\* The keys of a page, in page order.
PageKeys(page) == [i \in 1..Len(page.Objects) |-> page.Objects[i].Key]

(***************************************************************************)
(* The driver writer (bucket.NewTypedWriter, writer.Write, writer.Close)   *)
(*                                                                         *)
(* Every operator takes the directory and a writer and returns both as     *)
(* they are after the step: [fs |-> ..., w |-> ...].  Close is cut at its  *)
(* system calls, so that other callers can run between them.               *)
(***************************************************************************)

Digits == <<"0", "1", "2", "3">>

\* ioutil.TempFile(dir, "fileblob"): a name that no other writer has.
TempName(id) == <<"f", "i", "l", "e", "b", "l", "o", "b">> \o <<Digits[id + 1]>>

DataIno(id) == <<id, "data">>

AttrsIno(id) == <<id, "attrs">>

NoWriter ==
    [pc |-> "idle", id |-> 0, key |-> <<>>, path |-> <<>>, tmp |-> <<>>,
     attrs |-> DefaultAttrs, md5hash |-> <<>>, ctxErr |-> FALSE,
     afd |-> AttrsIno(0), err |-> "nil"]

Failed(w, err) == [w EXCEPT !.pc = "done", !.err = err]

NewTypedWriter(fs, id, key, contentType, opts) ==
    LET pp == path(key)
        dir == DirOf(pp.path)
        tmp == JoinPath(dir, TempName(id))
    IN  IF pp.err # "nil" THEN [fs |-> fs, w |-> Failed(NoWriter, pp.err)]
        ELSE IF ~CanMkdirAll(fs, dir) THEN [fs |-> fs, w |-> Failed(NoWriter, "MkdirAll")]
        ELSE [fs |-> Put(MkdirAll(fs, dir), tmp, FileEntry(DataIno(id), <<>>, <<>>)),
              w  |-> [NoWriter EXCEPT !.pc = "open", !.id = id, !.key = key,
                                      !.path = pp.path, !.tmp = tmp,
                                      !.attrs = xattrs(opts, contentType)]]

\* writer.Write: hash p, then append it to the temporary file through the
\* open descriptor.
WriterWrite(fs, w, p) ==
    [fs |-> IF IsFile(fs, w.tmp) /\ fs[w.tmp].ino = DataIno(w.id)
            THEN Put(fs, w.tmp, [fs[w.tmp] EXCEPT !.data = @ \o p])
            ELSE fs,
     w  |-> [w EXCEPT !.md5hash = @ \o p]]

\* A deferred remove of the object's path instead of the temporary file's.
RemoveTarget(fs, w) == Remove(fs, w.path)

\* A Close that leaves its temporary file where it is.
RemoveTempForgotten(fs, w) == fs

\* The deferred os.Remove(w.f.Name()).
RemoveTemp(fs, w) == Remove(fs, w.tmp)

\* writer.Close up to the side-record: close the file, test the context,
\* compute the digest and the ETag.
CloseBegin(fs, w) ==
    IF w.ctxErr THEN [fs |-> RemoveTemp(fs, w), w |-> Failed(w, "canceled")]
    ELSE [fs |-> fs,
          w  |-> [w EXCEPT !.pc = "setAttrs",
                           !.attrs.MD5 = MD5(w.md5hash),
                           !.attrs.ETag = ToS3ETag(MD5(w.md5hash))]]

\* setAttrs: os.Create of the side-record file; ok is false when the
\* operating system refuses.
CloseCreateAttrs(fs, w, ok) ==
    IF ok /\ CanCreateAttrs(fs, w.path)
    THEN LET fs1 == CreateAttrs(fs, w.path, AttrsIno(w.id))
         IN  [fs |-> fs1,
              w  |-> [w EXCEPT !.pc = "encode", !.afd = fs1[w.path \o attrsExt].ino]]
    ELSE [fs |-> RemoveTemp(fs, w), w |-> Failed(w, "setAttrs")]

\* setAttrs: the encoder's write of the side-record.
CloseEncodeAttrs(fs, w, ok) ==
    IF ok
    THEN [fs |-> EncodeAttrs(fs, w.path, w.afd, w.attrs), w |-> [w EXCEPT !.pc = "rename"]]
    ELSE [fs |-> RemoveTemp(fs, w), w |-> Failed(w, "setAttrs")]

\* writer.Close from the rename on.
CloseRename(fs, w, ok) ==
    IF ok /\ CanRename(fs, w.tmp, w.path)
    THEN [fs |-> Rename(fs, w.tmp, w.path), w |-> [w EXCEPT !.pc = "done"]]
    ELSE [fs |-> RemoveTemp(Remove(fs, w.path \o attrsExt), w), w |-> Failed(w, "rename")]

\* writer.Close run to its end, every system call answering ok.
ThenCreateAttrs(s, ok) ==
    IF s.w.pc = "setAttrs" THEN CloseCreateAttrs(s.fs, s.w, ok) ELSE s

ThenEncodeAttrs(s, ok) ==
    IF s.w.pc = "encode" THEN CloseEncodeAttrs(s.fs, s.w, ok) ELSE s

ThenRename(s, ok) ==
    IF s.w.pc = "rename" THEN CloseRename(s.fs, s.w, ok) ELSE s

WriterClose(fs, w, ok) ==
    ThenRename(ThenEncodeAttrs(ThenCreateAttrs(CloseBegin(fs, w), ok), ok), ok)

(***************************************************************************)
(* Reading (bucket.forKey, bucket.Attributes, bucket.NewRangeReader)       *)
(***************************************************************************)

\* A directory above p is a file: the system calls on p fail with ENOTDIR,
\* for which os.IsNotExist is false.
UnderFile(fs, p) == \E i \in DOMAIN Ancestors(p) : IsFile(fs, Ancestors(p)[i])

\* The error of a system call on a path that does not exist.
Missing(fs, p) == IF UnderFile(fs, p) THEN "NotDir" ELSE "NotExist"

\* os.Stat(path) as forKey uses it.
Stat(fs, p) ==
    IF Exists(fs, p)
    THEN [err |-> "nil", Size |-> IF IsFile(fs, p) THEN Len(fs[p].data) ELSE 0]
    ELSE [err |-> Missing(fs, p), Size |-> 0]

\* os.Open(path) followed by reading to the end: the bytes of the inode
\* that is linked at path when it is opened.
OpenRead(fs, p) ==
    IF IsFile(fs, p) THEN [err |-> "nil", data |-> fs[p].data]
    ELSE [err |-> IF Exists(fs, p) THEN "IsDir" ELSE Missing(fs, p), data |-> <<>>]

(***************************************************************************)
(* State                                                                   *)
(***************************************************************************)

VARIABLES
    fs,     \* the bucket directory: relative path -> directory entry
    wr,     \* the driver writers, by writer id
    rd,     \* the callers of Attributes and NewRangeReader, by reader id
    it,     \* a caller paging through ListPaged
    fw,     \* a facade Writer
    ioFaults, \* whether the operating system may refuse a system call
    mp        \* the multipart uploads and their callers

vars == <<fs, wr, rd, it, fw, ioFaults, mp>>

\* Bounds of the model.
NumWriters == 2
NumReaders == 1
DataLen == 2

Writers == 1..NumWriters

Readers == 1..NumReaders

\* The bytes writer id writes; id 0 is the write that made an object the
\* directory starts with.
Payload(id) == [i \in 1..DataLen |-> 10 * id + i]

KeyA == <<"a">>

KeyAB == <<"a", "/", "b">>

\* The keys the callers of the concurrent specification use.
Keys == {KeyA, KeyAB}

ContentTypes == {"text/plain"}

EmptyDir == <<>>

\* The directory after one complete, successful write of data to key.
RECURSIVE WriteChunks(_, _, _)
WriteChunks(fs0, w, data) ==
    IF data = <<>> THEN [fs |-> fs0, w |-> w]
    ELSE LET s == WriterWrite(fs0, w, <<Head(data)>>)
         IN  WriteChunks(s.fs, s.w, Tail(data))

WriteAll(fs0, id, key, contentType, opts, data) ==
    LET s0 == NewTypedWriter(fs0, id, key, contentType, opts)
    IN  IF s0.w.pc # "open" THEN s0
        ELSE LET s1 == WriteChunks(s0.fs, s0.w, data)
             IN  WriterClose(s1.fs, s1.w, TRUE)

\* The directories the concurrent specification starts from: empty, or
\* holding one object written earlier.
InitDirs ==
    {EmptyDir} \cup { WriteAll(EmptyDir, 0, k, "text/html", NoOpts, Payload(0)).fs : k \in Keys }

NoReader ==
    [pc |-> "idle", op |-> "", key |-> <<>>, path |-> <<>>, Size |-> 0,
     xa |-> DefaultAttrs, data |-> <<>>, err |-> "nil"]

NoIter == [pc |-> "unused"]

NoFacadeWriter == [pc |-> "unused"]

NoMultipart == [pc |-> "unused"]

Init ==
    /\ fs \in InitDirs
    /\ wr = [w \in Writers |-> NoWriter]
    /\ rd = [r \in Readers |-> NoReader]
    /\ it = NoIter
    /\ fw = NoFacadeWriter
    /\ ioFaults = TRUE
    /\ mp = NoMultipart

(***************************************************************************)
(* Actions of the concurrent specification                                 *)
(***************************************************************************)

Apply(w, s) == fs' = s.fs /\ wr' = [wr EXCEPT ![w] = s.w]

\* The answers a system call can give: it works, or (with ioFaults) fails.
Outcomes == IF ioFaults THEN BOOLEAN ELSE {TRUE}

\* bucket.NewTypedWriter(ctx, key, contentType, opts)
DoNewTypedWriter(w) ==
    /\ wr[w].pc = "idle"
    /\ \E key \in Keys, ct \in ContentTypes :
           Apply(w, NewTypedWriter(fs, w, key, ct, NoOpts))
    /\ UNCHANGED <<rd, it, fw, ioFaults, mp>>

\* writer.Write(p), p the next byte of the writer's payload
DoWrite(w) ==
    /\ wr[w].pc = "open"
    /\ Len(wr[w].md5hash) < DataLen
    /\ Apply(w, WriterWrite(fs, wr[w], <<Payload(w)[Len(wr[w].md5hash) + 1]>>))
    /\ UNCHANGED <<rd, it, fw, ioFaults, mp>>

\* writer.Close up to os.Create of the side-record: closing the file,
\* testing the context and computing the digest touch nothing another
\* caller sees.  The caller closes when it has written its payload, or
\* earlier when it has cancelled the context it gave to NewTypedWriter.
DoCloseBegin(w) ==
    /\ wr[w].pc = "open"
    /\ \E canceled \in BOOLEAN, ok \in Outcomes :
          /\ ~canceled => Len(wr[w].md5hash) = DataLen
          /\ LET s == CloseBegin(fs, [wr[w] EXCEPT !.ctxErr = canceled])
             IN  Apply(w, IF s.w.pc = "setAttrs" THEN CloseCreateAttrs(s.fs, s.w, ok) ELSE s)
    /\ UNCHANGED <<rd, it, fw, ioFaults, mp>>

DoCloseEncodeAttrs(w) ==
    /\ wr[w].pc = "encode"
    /\ \E ok \in Outcomes : Apply(w, CloseEncodeAttrs(fs, wr[w], ok))
    /\ UNCHANGED <<rd, it, fw, ioFaults, mp>>

DoCloseRename(w) ==
    /\ wr[w].pc = "rename"
    /\ \E ok \in Outcomes : Apply(w, CloseRename(fs, wr[w], ok))
    /\ UNCHANGED <<rd, it, fw, ioFaults, mp>>

\* bucket.forKey, first half: path and os.Stat.
DoForKeyStat(r) ==
    /\ rd[r].pc = "idle"
    /\ \E op \in {"Attributes", "NewRangeReader"}, key \in Keys :
          LET pp == path(key)
              st == Stat(fs, pp.path)
              r0 == [NoReader EXCEPT !.op = op, !.key = key, !.path = pp.path]
          IN  rd' = [rd EXCEPT ![r] =
                       IF pp.err # "nil" THEN [r0 EXCEPT !.pc = "done", !.err = pp.err]
                       ELSE IF st.err # "nil" THEN [r0 EXCEPT !.pc = "done", !.err = st.err]
                       ELSE [r0 EXCEPT !.pc = "getAttrs", !.Size = st.Size]]
    /\ UNCHANGED <<fs, wr, it, fw, ioFaults, mp>>

\* bucket.forKey, second half: getAttrs.  Attributes returns here.
DoForKeyGetAttrs(r) ==
    /\ rd[r].pc = "getAttrs"
    /\ LET ga == getAttrs(fs, rd[r].path) IN
       rd' = [rd EXCEPT ![r] =
                IF ga.err # "nil" THEN [@ EXCEPT !.pc = "done", !.err = ga.err]
                ELSE IF @.op = "Attributes" THEN [@ EXCEPT !.pc = "done", !.xa = ga.xa]
                ELSE [@ EXCEPT !.pc = "open", !.xa = ga.xa]]
    /\ UNCHANGED <<fs, wr, it, fw, ioFaults, mp>>

\* bucket.NewRangeReader(key, 0, -1) after forKey: os.Open, and the
\* caller's reads to the end of the file.
DoOpenRead(r) ==
    /\ rd[r].pc = "open"
    /\ LET o == OpenRead(fs, rd[r].path) IN
       rd' = [rd EXCEPT ![r] = [@ EXCEPT !.pc = "done", !.err = o.err, !.data = o.data]]
    /\ UNCHANGED <<fs, wr, it, fw, ioFaults, mp>>

WriterStep(w) ==
    \/ DoNewTypedWriter(w)
    \/ DoWrite(w)
    \/ DoCloseBegin(w)
    \/ DoCloseEncodeAttrs(w)
    \/ DoCloseRename(w)

ReaderStep(r) ==
    \/ DoForKeyStat(r)
    \/ DoForKeyGetAttrs(r)
    \/ DoOpenRead(r)

Next ==
    \/ \E w \in Writers : WriterStep(w)
    \/ \E r \in Readers : ReaderStep(r)

Spec == Init /\ [][Next]_vars

\* The same callers on an operating system that refuses no system call.
InitReliable ==
    /\ fs \in InitDirs
    /\ wr = [w \in Writers |-> NoWriter]
    /\ rd = [r \in Readers |-> NoReader]
    /\ it = NoIter
    /\ fw = NoFacadeWriter
    /\ ioFaults = FALSE
    /\ mp = NoMultipart

SpecReliable == InitReliable /\ [][Next]_vars

(***************************************************************************)
(* bucket.Delete                                                           *)
(***************************************************************************)

Delete(dir, key) ==
    LET pp == path(key) IN
    IF pp.err # "nil" THEN [fs |-> dir, err |-> pp.err]
    ELSE IF ~CanRemove(dir, pp.path)
         THEN [fs |-> dir, err |-> IF Exists(dir, pp.path) THEN "NotEmpty" ELSE Missing(dir, pp.path)]
    ELSE LET ap == pp.path \o attrsExt
             d1 == Remove(dir, pp.path)
         IN  IF Exists(d1, ap) /\ ~CanRemove(d1, ap) THEN [fs |-> d1, err |-> "NotEmpty"]
             ELSE [fs |-> Remove(d1, ap), err |-> "nil"]

(***************************************************************************)
(* Paging through a bucket: the listing specification                      *)
(*                                                                         *)
(* A single caller fills the bucket with complete writes and deletes, then *)
(* pages through ListPaged, handing each NextPageToken back as PageToken;  *)
(* between two pages it may write one more object.                         *)
(***************************************************************************)

Key_a_b == <<"a", "-", "b">>

Key_a_a == <<"a", "-", "a">>

KeyAC == <<"a", "/", "c">>

KeyB == <<"b">>

\* The keys the listing specification stores.
ListKeys == {Key_a_a, Key_a_b, KeyAB, KeyAC, KeyB}

ListPrefixes == {<<>>, <<"a">>, <<"a", "/">>}

ListDelimiters == {<<>>, Slash}

\* Bounds of the listing specification.
MaxPageSize == 2
MaxInserts == 1

\* The keys of ListKeys at which the directory holds an object.
StoredKeys(dir) == { k \in ListKeys : IsFile(dir, path(k).path) }

InitList ==
    /\ fs = EmptyDir
    /\ wr = [w \in Writers |-> NoWriter]
    /\ rd = [r \in Readers |-> NoReader]
    /\ it = [pc |-> "start", opts |-> ListOptions(<<>>, <<>>, 0, <<>>), pages |-> <<>>,
             start |-> {}, inserted |-> {}]
    /\ fw = NoFacadeWriter
    /\ ioFaults = FALSE
    /\ mp = NoMultipart

\* A complete write of key before the listing starts.
ListPut(key) ==
    /\ it.pc = "start"
    /\ fs' = WriteAll(fs, 0, key, "text/plain", NoOpts, Payload(0)).fs
    /\ UNCHANGED <<wr, rd, it, fw, ioFaults, mp>>

\* bucket.Delete(key) before the listing starts.
ListDelete(key) ==
    /\ it.pc = "start"
    /\ fs' = Delete(fs, key).fs
    /\ UNCHANGED <<wr, rd, it, fw, ioFaults, mp>>

\* The caller's bookkeeping after a page.
AfterPage(page) ==
    [it EXCEPT !.pc = IF page.NextPageToken = <<>> THEN "end" ELSE "more",
               !.opts.PageToken = page.NextPageToken,
               !.pages = Append(@, page.Objects)]

\* The first ListPaged call.
ListFirstPage ==
    /\ it.pc = "start"
    /\ \E prefix \in ListPrefixes, delimiter \in ListDelimiters, pageSize \in 0..MaxPageSize :
          LET opts == ListOptions(prefix, delimiter, pageSize, <<>>)
              page == ListPaged(fs, opts)
          IN  it' = [AfterPage(page) EXCEPT
                        !.opts = [opts EXCEPT !.PageToken = page.NextPageToken],
                        !.start = StoredKeys(fs)]
    /\ UNCHANGED <<fs, wr, rd, fw, ioFaults, mp>>

\* A ListPaged call with the token of the page before.
ListNextPage ==
    /\ it.pc = "more"
    /\ it' = AfterPage(ListPaged(fs, it.opts))
    /\ UNCHANGED <<fs, wr, rd, fw, ioFaults, mp>>

\* A complete write of a new key between two pages.
ListInsert(key) ==
    /\ it.pc = "more"
    /\ Cardinality(it.inserted) < MaxInserts
    /\ key \notin StoredKeys(fs)
    /\ fs' = WriteAll(fs, 0, key, "text/plain", NoOpts, Payload(0)).fs
    /\ it' = [it EXCEPT !.inserted =
                 IF key \in StoredKeys(fs') THEN @ \cup {[key |-> key, after |-> Len(it.pages)]}
                 ELSE @]
    /\ UNCHANGED <<wr, rd, fw, ioFaults, mp>>

NextList ==
    \/ \E key \in ListKeys : ListPut(key)
    \/ \E key \in ListKeys : ListDelete(key)
    \/ ListFirstPage
    \/ ListNextPage
    \/ \E key \in ListKeys : ListInsert(key)

SpecList == InitList /\ [][NextList]_vars

(***************************************************************************)
(* The facade Writer (Bucket.NewWriter, Writer.Write, Writer.Close)        *)
(*                                                                         *)
(* The bytes the caller writes are numbered by their position in the       *)
(* stream, so that a byte lost, repeated or out of place shows.            *)
(***************************************************************************)

sniffLen == 512

\* http.DetectContentType for the caller's bytes, which are not text.
DetectContentType(p) ==
    IF p = <<>> THEN "text/plain; charset=utf-8" ELSE "application/octet-stream"

\* Bounds of the facade specification.
MaxWrites == 3

\* The lengths of the slices the caller hands to Write.
ChunkSizes == {0, 1, sniffLen - 1, sniffLen, sniffLen + 1}

\* The ContentMD5 options of the caller; NoMD5 is the option left unset.
MD5Choices == {NoMD5, MD5(<<>>), MD5(<<1>>)}

\* Bytes first..last of the caller's stream.
Stream(first, last) == [i \in 1..(last - first + 1) |-> first + i - 1]

FacadeWriter0 ==
    [pc |-> "open", w |-> NoWriter, key |-> <<>>, buf |-> <<>>, canceled |-> FALSE,
     contentMD5 |-> NoMD5, md5hash |-> <<>>, sent |-> 0, calls |-> 0, n |-> 0, err |-> "nil",
     opts |-> NoOpts]

\* Bucket.NewWriter once the bucket is known to be open: with a content
\* type the driver writer is opened at once, without one the Writer buffers
\* until it can sniff.  dopts are the options for the driver.
FacadeNewWriterWith(dir, key, contentType, contentMD5, dopts) ==
    LET f == [FacadeWriter0 EXCEPT !.key = key, !.contentMD5 = contentMD5, !.opts = dopts] IN
    IF contentType # ""
    THEN LET s == NewTypedWriter(dir, 1, key, contentType, dopts)
         IN  IF s.w.pc # "open"
             THEN [fs |-> s.fs, f |-> [f EXCEPT !.pc = "failed", !.err = s.w.err]]
             ELSE [fs |-> s.fs, f |-> [f EXCEPT !.w = s.w]]
    ELSE [fs |-> dir, f |-> f]

\* Bucket.NewWriter with no option but the content type and the ContentMD5.
FacadeNewWriter(dir, key, contentType, contentMD5) ==
    FacadeNewWriterWith(dir, key, contentType, contentMD5, NoOpts)

\* Writer.write: the driver's Write, returning its count.
FacadeWrite(dir, f, p) ==
    LET s == WriterWrite(dir, f.w, p)
    IN  [fs |-> s.fs, f |-> [f EXCEPT !.w = s.w, !.n = Len(p)]]

\* Writer.open: sniff p, open the driver writer, write p.
FacadeOpen(dir, f, p) ==
    LET s == NewTypedWriter(dir, 1, f.key, DetectContentType(p), f.opts)
    IN  IF s.w.pc # "open"
        THEN [fs |-> s.fs, f |-> [f EXCEPT !.n = 0, !.err = s.w.err]]
        ELSE FacadeWrite(s.fs, [f EXCEPT !.w = [s.w EXCEPT !.ctxErr = f.canceled],
                                         !.buf = <<>>], p)

\* A Write that, when the buffer fills, hands only p to open and forgets the
\* bytes buffered before.
WriterDotWriteDropsBuffer(dir, f0, p) ==
    LET f == [f0 EXCEPT !.md5hash = IF f0.contentMD5 # NoMD5 THEN @ \o p ELSE @,
                        !.sent = @ + Len(p), !.calls = @ + 1]
    IN  IF f.w.pc # "idle" THEN FacadeWrite(dir, f, p)
        ELSE IF Len(f.buf \o p) >= sniffLen THEN FacadeOpen(dir, f, p)
        ELSE [fs |-> dir, f |-> [f EXCEPT !.buf = @ \o p, !.n = Len(p)]]

\* Writer.Write(p)
WriterDotWrite(dir, f0, p) ==
    LET f == [f0 EXCEPT !.md5hash = IF f0.contentMD5 # NoMD5 THEN @ \o p ELSE @,
                        !.sent = @ + Len(p), !.calls = @ + 1]
    IN  IF f.w.pc # "idle" THEN FacadeWrite(dir, f, p)
        ELSE IF Len(f.buf) = 0 /\ Len(p) >= sniffLen THEN FacadeOpen(dir, f, p)
        ELSE IF Len(f.buf \o p) >= sniffLen
             THEN FacadeOpen(dir, [f EXCEPT !.buf = @ \o p], f.buf \o p)
             ELSE [fs |-> dir, f |-> [f EXCEPT !.buf = @ \o p, !.n = Len(p)]]

\* The facade Writer after its driver writer has been closed.
FacadeClosed(f, s) ==
    [fs |-> s.fs, f |-> [f EXCEPT !.pc = "closed", !.w = s.w, !.err = s.w.err]]

\* The driver's Close as the facade calls it, every system call working.
FacadeDriverClose(dir, f) == FacadeClosed(f, WriterClose(dir, f.w, TRUE))

\* Writer.Close when the bytes written do not have the ContentMD5 of the
\* caller: cancel, close the driver writer if there is one, fail.
FacadeCloseMismatch(dir, g) ==
    IF g.w.pc # "idle"
    THEN [FacadeDriverClose(dir, g) EXCEPT !.f.err = "FailedPrecondition"]
    ELSE [fs |-> dir, f |-> [g EXCEPT !.pc = "closed", !.err = "FailedPrecondition"]]

\* Writer.Close after Writer.open: return its error, or close the driver
\* writer.
FacadeCloseOpened(s) ==
    IF s.f.err # "nil" THEN [s EXCEPT !.f.pc = "closed"]
    ELSE FacadeDriverClose(s.fs, s.f)

\* A Close that reports the mismatch but does not cancel the write.
WriterDotCloseWithoutCancel(dir, f) ==
    IF f.contentMD5 # NoMD5 /\ MD5(f.md5hash) # f.contentMD5
    THEN FacadeCloseMismatch(dir, f)
    ELSE IF f.w.pc # "idle" THEN FacadeDriverClose(dir, f)
    ELSE FacadeCloseOpened(FacadeOpen(dir, f, f.buf))

\* Writer.Close()
WriterDotClose(dir, f) ==
    IF f.contentMD5 # NoMD5 /\ MD5(f.md5hash) # f.contentMD5
    THEN FacadeCloseMismatch(dir, [f EXCEPT !.canceled = TRUE, !.w.ctxErr = TRUE])
    ELSE IF f.w.pc # "idle" THEN FacadeDriverClose(dir, f)
    ELSE FacadeCloseOpened(FacadeOpen(dir, f, f.buf))

FacadeContentTypes == {"", "text/plain"}

InitFacade ==
    /\ fs \in InitDirs
    /\ wr = [w \in Writers |-> NoWriter]
    /\ rd = [r \in Readers |-> NoReader]
    /\ it = NoIter
    /\ fw = NoFacadeWriter
    /\ ioFaults = FALSE
    /\ mp = NoMultipart

ApplyFacade(s) == fs' = s.fs /\ fw' = s.f /\ UNCHANGED <<wr, rd, it, ioFaults, mp>>

DoFacadeNewWriter ==
    /\ fw.pc = "unused"
    /\ \E key \in Keys, ct \in FacadeContentTypes, md5 \in MD5Choices :
          ApplyFacade(FacadeNewWriter(fs, key, ct, md5))

DoFacadeWrite ==
    /\ fw.pc = "open"
    /\ fw.calls < MaxWrites
    /\ \E c \in ChunkSizes : ApplyFacade(WriterDotWrite(fs, fw, Stream(fw.sent + 1, fw.sent + c)))

DoFacadeClose ==
    /\ fw.pc = "open"
    /\ ApplyFacade(WriterDotClose(fs, fw))

NextFacade == DoFacadeNewWriter \/ DoFacadeWrite \/ DoFacadeClose

SpecFacade == InitFacade /\ [][NextFacade]_vars

(***************************************************************************)
(* Multipart uploads: names, digests and the manifest                      *)
(*                                                                         *)
(* A hex digest, a UUID and a decimal number are single elements of a     *)
(* path: strings that hold neither "/" nor ".".                            *)
(***************************************************************************)

fsMultipartJSONFile ==
    <<"m", "u", "l", "t", "i", "p", "a", "r", "t", ".", "j", "s", "o", "n">>

fsMultipartMetaCurrentVersion == 1

\* The minimum size of a part that is not the last one, as the package's
\* test configures it.
globalMinPartSize == 5

\* The scratch root of the pending uploads.
multipartDirTmp == fileBlobSysTmp

\* blobutil.GetSHA256Hash(key): SHA-256 as an injective function of the key.
GetSHA256Hash(key) == <<"sha256" \o ToString(key)>>

\* blobutil.MustGetUUID(): the UUID of the n-th call.
MustGetUUID(n) == <<"uuid" \o ToString(n)>>

\* A scratch directory that is the same for all uploads of a key.
SharedUploadDir(key, uploadID) ==
    JoinDir(JoinSlash(<<multipartDirTmp, GetSHA256Hash(key), "upload">>))

getUploadIDDir(key, uploadID) ==
    JoinDir(JoinSlash(<<multipartDirTmp, GetSHA256Hash(key), uploadID>>))

getMultipartSHADir(key) == JoinDir(JoinSlash(<<multipartDirTmp, GetSHA256Hash(key)>>))

\* The suffix field of an ETag that has no "-n" at its end.
NoSuffix == -1

\* hex.EncodeToString(sum) as an ETag: the hex digits alone.
HexETag(sum) == [hex |-> sum, suffix |-> NoSuffix]

\* blobutil.CanonicalizeETag: the ETag without the quotes around it.
CanonicalizeETag(etag) == [hex |-> etag.hex, suffix |-> etag.suffix]

\* The characters of an ETag.
ETagString(etag) ==
    IF etag.suffix = NoSuffix THEN ToString(etag.hex.md5)
    ELSE ToString(etag.hex.md5) \o "-" \o ToString(etag.suffix)

\* The bytes of a digest: a byte string that determines the digest (256 is
\* no byte of a part, so the digests of a concatenation can be told apart).
SumBytes(sum) == sum.md5 \o <<256>>

\* hex.DecodeString of an ETag: fails on the "-" of a suffixed ETag.
HexDecodeString(etag) ==
    IF etag.suffix = NoSuffix THEN [err |-> "nil", bytes |-> SumBytes(etag.hex)]
    ELSE [err |-> "InvalidByte", bytes |-> <<>>]

\* getCompleteMultipartMD5: the loop over parts[i..], finalMD5Bytes so far.
RECURSIVE CompleteMD5Bytes(_, _)
CompleteMD5Bytes(parts, finalMD5Bytes) ==
    IF parts = <<>> THEN [err |-> "nil", bytes |-> finalMD5Bytes]
    ELSE IF HexDecodeString(CanonicalizeETag(Head(parts).ETag)).err # "nil"
         THEN [err |-> "InvalidByte", bytes |-> <<>>]
         ELSE CompleteMD5Bytes(Tail(parts),
                  finalMD5Bytes \o HexDecodeString(CanonicalizeETag(Head(parts).ETag)).bytes)

\* A composite ETag that does not count the parts.
S3MD5OfOne(r, n) ==
    IF r.err # "nil" THEN [err |-> r.err, etag |-> NoETag]
    ELSE [err |-> "nil", etag |-> [hex |-> MD5(r.bytes), suffix |-> 1]]

S3MD5(r, n) ==
    IF r.err # "nil" THEN [err |-> r.err, etag |-> NoETag]
    ELSE [err |-> "nil", etag |-> [hex |-> MD5(r.bytes), suffix |-> n]]

getCompleteMultipartMD5(parts) == S3MD5(CompleteMD5Bytes(parts, <<>>), Len(parts))

\* fmt.Sprintf("%.5d", n)
Pad5(n) ==
    IF n < 10 THEN "0000" \o ToString(n)
    ELSE IF n < 100 THEN "000" \o ToString(n)
    ELSE IF n < 1000 THEN "00" \o ToString(n)
    ELSE IF n < 10000 THEN "0" \o ToString(n)
    ELSE ToString(n)

DecDigits == <<"0", "1", "2", "3", "4", "5", "6", "7", "8", "9">>

\* fmt.Sprintf("%d", n) and strconv.FormatInt(n, 10), n >= 0
RECURSIVE FormatInt(_)
FormatInt(n) ==
    IF n < 10 THEN <<DecDigits[n + 1]>>
    ELSE FormatInt(n \div 10) \o <<DecDigits[(n % 10) + 1]>>

encodePartFile(partNumber, etag, actualSize) ==
    <<Pad5(partNumber), ".", ETagString(etag), ".">> \o FormatInt(actualSize)

\* getPartFile: the entry that begins with the number and the ETag, <<>>
\* when there is none.  Entries with one number and one ETag hold the same
\* bytes and so have one name: the order of the entries does not matter.
getPartFile(entries, partNumber, etag) ==
    IF \E e \in entries : HasPrefix(e, <<Pad5(partNumber), ".", ETagString(etag), ".">>)
    THEN CHOOSE e \in entries : HasPrefix(e, <<Pad5(partNumber), ".", ETagString(etag), ".">>)
    ELSE <<>>

\* strings.Split(name, "."): the pieces between the dots.
RECURSIVE SplitDot(_)
SplitDot(s) ==
    IF Index(s, <<".">>) = -1 THEN <<s>>
    ELSE <<SubSeq(s, 1, Index(s, <<".">>))>> \o SplitDot(Drop(s, Index(s, <<".">>) + 1))

IsDigit(c) == \E d \in 1..10 : DecDigits[d] = c

DigitValue(c) == (CHOOSE d \in 1..10 : DecDigits[d] = c) - 1

RECURSIVE DigitsValue(_, _)
DigitsValue(s, acc) ==
    IF s = <<>> THEN acc ELSE DigitsValue(Tail(s), 10 * acc + DigitValue(Head(s)))

\* strconv.ParseInt(s, 10, 64) of a string without sign
ParseInt(s) ==
    IF s # <<>> /\ \A i \in 1..Len(s) : IsDigit(s[i])
    THEN [err |-> "nil", n |-> DigitsValue(s, 0)]
    ELSE [err |-> "syntax", n |-> 0]

\* The size in the name of a part file: its last piece.
PartFileSize(partFile) == ParseInt(SplitDot(partFile)[Len(SplitDot(partFile))])

\* json.Encode of fileblobMultipartMetaV1{Version, Key}: the version, then
\* the characters of the key.
EncodeMeta(key) == <<fsMultipartMetaCurrentVersion>> \o [i \in 1..Len(key) |-> Ord(key[i])]

\* json.Decode into fileblobMultipartMetaV1.
DecodeMeta(data) ==
    IF data = <<>> THEN [err |-> "EOF", Version |-> 0, Key |-> <<>>]
    ELSE [err |-> "nil", Version |-> data[1],
          Key |-> [i \in 1..(Len(data) - 1) |-> Alphabet[data[i + 1]]]]

\* os.RemoveAll(d)
\* A removal that leaves the directory and all below it.
KeepAll(dir, d) == dir

RemoveAll(dir, d) ==
    [q \in { p \in DOMAIN dir : p # d /\ ~HasPrefix(p, d \o Slash) } |-> dir[q]]

\* posix.ReadDir(d): the names in d.
ReadDir(dir, d) ==
    IF IsDir(dir, d) THEN [err |-> "nil", entries |-> DirNames(dir, d)]
    ELSE [err |-> "NotExist", entries |-> {}]

(***************************************************************************)
(* Multipart uploads: the operations of the driver                         *)
(***************************************************************************)

\* filepath.Join(getUploadIDDir(key, uploadID), fsMultipartJSONFile)
ManifestKey(key, uploadID) == JoinSlash(<<getUploadIDDir(key, uploadID), fsMultipartJSONFile>>)

\* The identities of the temporary files of the writers that
\* NewMultipartUpload and CompleteMultipartUpload open.
ManifestWriterID == 2
CompleteWriterID == 1

WriterCloseOf(s, ok) == WriterClose(s.fs, s.w, ok)

\* NewMultipartUpload after NewTypedWriter: encode the manifest into the
\* writer and, deferred, close it.
ManifestWritten(s, key, ok) ==
    IF s.w.pc # "open" THEN s
    ELSE WriterCloseOf(WriterWrite(s.fs, s.w, EncodeMeta(key)), ok)

\* What NewMultipartUpload returns: the error of NewTypedWriter, else the
\* upload ID; the error of the deferred Close is dropped.
UploadStarted(s, uploadID) ==
    IF s.w.path = <<>> THEN [fs |-> s.fs, uploadID |-> <<>>, err |-> s.w.err]
    ELSE [fs |-> s.fs, uploadID |-> uploadID, err |-> "nil"]

\* bucket.NewMultipartUpload, the n-th call; ok is the answer of the system
\* calls of the deferred Close.
NewMultipartUpload(dir, n, key, contentType, opts, ok) ==
    UploadStarted(
        ManifestWritten(
            NewTypedWriter(dir, ManifestWriterID, ManifestKey(key, MustGetUUID(n)),
                           contentType, opts),
            key, ok),
        MustGetUUID(n))

\* bucket.AbortMultipartUpload
AbortMultipartUpload(dir, key, uploadID) ==
    IF Stat(dir, JoinDir(ManifestKey(key, uploadID))).err # "nil"
    THEN [fs |-> dir, err |-> "NotExist"]
    ELSE [fs  |-> Remove(RemoveAll(dir, getUploadIDDir(key, uploadID)),
                         getMultipartSHADir(key)),
          err |-> "nil"]

\* ioutil.TempFile(dir, "fileblob") of a part writer.
PartTempName(id) == <<"f", "i", "l", "e", "b", "l", "o", "b">> \o <<"p" \o ToString(id)>>

PartIno(id) == <<id, "part">>

NoPartInfo == [PartNumber |-> 0, ETag |-> NoETag, Size |-> 0, ActualSize |-> 0]

NoPartWriter ==
    [pc |-> "idle", id |-> 0, path |-> <<>>, tmp |-> <<>>, partNumber |-> 0,
     attrs |-> DefaultAttrs, contentMD5 |-> NoMD5, md5hash |-> <<>>, sizeWritten |-> 0,
     ctxErr |-> FALSE, err |-> "nil", info |-> NoPartInfo]

PartFailed(w, err) == [w EXCEPT !.pc = "done", !.err = err]

\* bucket.NewMultipartWriter
NewMultipartWriter(dir, id, key, uploadID, partNumber, opts) ==
    IF Stat(dir, JoinDir(ManifestKey(key, uploadID))).err # "nil"
    THEN [fs |-> dir, w |-> PartFailed(NoPartWriter, "NotExist")]
    ELSE IF ~CanMkdirAll(dir, DirOf(getUploadIDDir(key, uploadID)))
    THEN [fs |-> dir, w |-> PartFailed(NoPartWriter, "MkdirAll")]
    ELSE [fs |-> Put(MkdirAll(dir, DirOf(getUploadIDDir(key, uploadID))),
                     JoinPath(DirOf(getUploadIDDir(key, uploadID)), PartTempName(id)),
                     FileEntry(PartIno(id), <<>>, <<>>)),
          w  |-> [NoPartWriter EXCEPT
                     !.pc = "open", !.id = id,
                     !.path = getUploadIDDir(key, uploadID),
                     !.tmp = JoinPath(DirOf(getUploadIDDir(key, uploadID)), PartTempName(id)),
                     !.partNumber = partNumber,
                     !.attrs = xattrs(opts, "application/octet-stream")]]

\* multipartWriter.Write
MultipartWrite(dir, w, p) ==
    [fs |-> IF IsFile(dir, w.tmp) /\ dir[w.tmp].ino = PartIno(w.id)
            THEN Put(dir, w.tmp, [dir[w.tmp] EXCEPT !.data = @ \o p])
            ELSE dir,
     w  |-> [w EXCEPT !.md5hash = @ \o p, !.sizeWritten = @ + Len(p)]]

\* The path of the part file the writer's Close makes.
PartPath(w) ==
    JoinPath(w.path, encodePartFile(w.partNumber, HexETag(MD5(w.md5hash)), w.sizeWritten))

\* setAttrs run to its end: os.Create, then the encoder's write through the
\* descriptor os.Create returned.
AttrsWritten(dir, p, xa) == EncodeAttrs(dir, p, dir[p \o attrsExt].ino, xa)

setAttrs(dir, p, ino, xa) == AttrsWritten(CreateAttrs(dir, p, ino), p, xa)

\* multipartWriter.Close from setAttrs on; w holds the digest and the ETag.
MultipartCloseStore(dir, w) ==
    IF ~CanCreateAttrs(dir, PartPath(w))
    THEN [fs |-> Remove(dir, w.tmp), w |-> PartFailed(w, "setAttrs")]
    ELSE IF ~CanRename(dir, w.tmp, PartPath(w))
    THEN [fs |-> Remove(setAttrs(dir, PartPath(w), AttrsIno(w.id), w.attrs), w.tmp),
          w  |-> PartFailed(w, "rename")]
    ELSE [fs |-> Rename(setAttrs(dir, PartPath(w), AttrsIno(w.id), w.attrs),
                        w.tmp, PartPath(w)),
          w  |-> [w EXCEPT !.pc = "done",
                           !.info = [PartNumber |-> w.partNumber, ETag |-> w.attrs.ETag,
                                     Size |-> w.sizeWritten, ActualSize |-> w.sizeWritten]]]

\* multipartWriter.Close
MultipartClose(dir, w) ==
    IF w.ctxErr THEN [fs |-> Remove(dir, w.tmp), w |-> PartFailed(w, "canceled")]
    ELSE IF w.contentMD5 # NoMD5 /\ MD5(w.md5hash) # w.contentMD5
    THEN [fs |-> Remove(dir, w.tmp), w |-> PartFailed(w, "BadDigest")]
    ELSE MultipartCloseStore(dir, [w EXCEPT !.attrs.MD5 = MD5(w.md5hash),
                                            !.attrs.ETag = HexETag(MD5(w.md5hash))])

(***************************************************************************)
(* bucket.CompleteMultipartUpload, cut in two: the checks up to the loop   *)
(* over the parts, then the write of the object.  A CompletePart is        *)
(* [PartNumber |-> n, ETag |-> e].                                         *)
(***************************************************************************)

NoBadPart == [PartNumber |-> 0, ETag |-> NoETag, PartSize |-> 0]

\* What the checks hand to the write: the error (with the part it names),
\* or the manifest's side-record, the composite ETag, the names in the
\* upload's directory, the canonicalized parts and their ObjectPartInfo.
NotValidated(err, bad) ==
    [err |-> err, bad |-> bad, xa |-> DefaultAttrs, s3MD5 |-> NoETag, entries |-> {},
     parts |-> <<>>, Parts |-> <<>>, objectActualSize |-> 0]

\* forKey of the manifest, os.Open, json.Decode, and the tests of the
\* version and the key.
ValidateManifest(dir, key, uploadID) ==
    LET pp == path(ManifestKey(key, uploadID))
        meta == DecodeMeta(dir[pp.path].data)
    IN  IF pp.err # "nil" THEN [err |-> pp.err, xa |-> DefaultAttrs]
        ELSE IF Stat(dir, pp.path).err # "nil" THEN [err |-> "NotExist", xa |-> DefaultAttrs]
        ELSE IF getAttrs(dir, pp.path).err # "nil" THEN [err |-> "decode", xa |-> DefaultAttrs]
        ELSE IF OpenRead(dir, pp.path).err # "nil" THEN [err |-> "Open", xa |-> DefaultAttrs]
        ELSE IF meta.err # "nil" THEN [err |-> "EOF", xa |-> DefaultAttrs]
        ELSE IF meta.Version # fsMultipartMetaCurrentVersion
        THEN [err |-> "errInvalidFormat", xa |-> DefaultAttrs]
        ELSE IF meta.Key # key THEN [err |-> "errInvalidFormat", xa |-> DefaultAttrs]
        ELSE [err |-> "nil", xa |-> getAttrs(dir, pp.path).xa]

\* The entries of the upload's directory without the side-records.
PartEntries(names) == { x \in names : ~HasSuffix(x, attrsExt) }

CanonicalizeParts(parts) ==
    [i \in 1..Len(parts) |->
        [PartNumber |-> parts[i].PartNumber, ETag |-> CanonicalizeETag(parts[i].ETag)]]

ObjectPartInfo(part, size, actualSize) ==
    [Number |-> part.PartNumber, ETag |-> part.ETag, Size |-> size, ActualSize |-> actualSize]

\* A size test that accepts every part.
AnySizeAllowed(size) == TRUE

isMinAllowedPartSize(size) == size >= globalMinPartSize

\* The loop over the parts from parts[i] on; infos and total are
\* wattrs.Parts and objectActualSize so far.
RECURSIVE CheckParts(_, _, _, _, _, _, _)
CheckParts(dir, uploadDir, entries, parts, i, infos, total) ==
    IF i > Len(parts) THEN [err |-> "nil", bad |-> NoBadPart, Parts |-> infos, total |-> total]
    ELSE LET part == parts[i]
             partFile == getPartFile(entries, part.PartNumber, part.ETag)
             actualSize == PartFileSize(partFile)
             fi == Stat(dir, JoinPath(uploadDir, partFile))
         IN  IF partFile = <<>> \/ actualSize.err # "nil"
             THEN [err |-> "InvalidPart",
                   bad |-> [PartNumber |-> part.PartNumber, ETag |-> part.ETag, PartSize |-> 0],
                   Parts |-> infos, total |-> total]
             ELSE IF fi.err # "nil"
             THEN [err |-> "NotExist", bad |-> NoBadPart, Parts |-> infos, total |-> total]
             ELSE IF i # Len(parts) /\ ~isMinAllowedPartSize(actualSize.n)
             THEN [err |-> "PartTooSmall",
                   bad |-> [PartNumber |-> part.PartNumber, ETag |-> part.ETag,
                            PartSize |-> actualSize.n],
                   Parts |-> infos, total |-> total]
             ELSE CheckParts(dir, uploadDir, entries, parts, i + 1,
                             Append(infos, ObjectPartInfo(part, fi.Size, actualSize.n)),
                             total + actualSize.n)

Validated(xa, s3MD5, entries, parts, checked) ==
    IF checked.err # "nil" THEN NotValidated(checked.err, checked.bad)
    ELSE [err |-> "nil", bad |-> NoBadPart, xa |-> xa, s3MD5 |-> s3MD5, entries |-> entries,
          parts |-> parts, Parts |-> checked.Parts, objectActualSize |-> checked.total]

\* CompleteMultipartUpload up to the end of the loop over the parts.
CompleteValidate(dir, key, uploadID, parts) ==
    LET manifest == ValidateManifest(dir, key, uploadID)
        s3MD5 == getCompleteMultipartMD5(parts)
        read == ReadDir(dir, getUploadIDDir(key, uploadID))
    IN  IF manifest.err # "nil" THEN NotValidated(manifest.err, NoBadPart)
        ELSE IF s3MD5.err # "nil" THEN NotValidated(s3MD5.err, NoBadPart)
        ELSE IF read.err # "nil" THEN NotValidated("NotExist", NoBadPart)
        ELSE Validated(manifest.xa, s3MD5.etag, PartEntries(read.entries),
                       CanonicalizeParts(parts),
                       CheckParts(dir, getUploadIDDir(key, uploadID),
                                  PartEntries(read.entries), CanonicalizeParts(parts),
                                  1, <<>>, 0))

\* The WriterOptions CompleteMultipartUpload and CopyObjectPart take from a
\* side-record.
WriterOptionsOf(xa) ==
    [CacheControl |-> xa.CacheControl, ContentDisposition |-> xa.ContentDisposition,
     ContentEncoding |-> xa.ContentEncoding, ContentLanguage |-> xa.ContentLanguage,
     Metadata |-> xa.Metadata]

ReservedMetadataPrefix == "X-Fileblob-Internal-"

\* md[k] = v
WithMetadata(md, k, v) == [x \in DOMAIN md \cup {k} |-> IF x = k THEN v ELSE md[x]]

\* A copy loop that starts at the last listed part.
RECURSIVE CopyPartsBackwards(_, _, _, _, _)
CopyPartsBackwards(s, uploadDir, entries, parts, i) ==
    IF i > Len(parts) THEN [fs |-> s.fs, w |-> s.w, err |-> "nil"]
    ELSE CopyPartsBackwards(
             WriterWrite(s.fs, s.w,
                 OpenRead(s.fs, JoinPath(uploadDir,
                     getPartFile(entries, parts[Len(parts) + 1 - i].PartNumber,
                                 parts[Len(parts) + 1 - i].ETag))).data),
             uploadDir, entries, parts, i + 1)

\* The loop that copies the parts into the writer, from parts[i] on.  When
\* a part file cannot be opened the writer is closed, as it is, and the
\* loop ends with the error.
RECURSIVE CopyParts(_, _, _, _, _)
CopyParts(s, uploadDir, entries, parts, i) ==
    IF i > Len(parts) THEN [fs |-> s.fs, w |-> s.w, err |-> "nil"]
    ELSE IF ~Exists(s.fs, JoinPath(uploadDir,
                          getPartFile(entries, parts[i].PartNumber, parts[i].ETag)))
    THEN [fs |-> WriterCloseOf(s, TRUE).fs, w |-> WriterCloseOf(s, TRUE).w, err |-> "NotExist"]
    ELSE CopyParts(WriterWrite(s.fs, s.w,
                       OpenRead(s.fs, JoinPath(uploadDir,
                           getPartFile(entries, parts[i].PartNumber, parts[i].ETag))).data),
                   uploadDir, entries, parts, i + 1)

NoObjectInfo == [Key |-> <<>>, Size |-> 0, MD5 |-> NoMD5, ETag |-> NoETag, IsDir |-> FALSE]

CompleteFailed(dir, err) == [fs |-> dir, err |-> err, info |-> NoObjectInfo]

\* The side-record CompleteMultipartUpload stores: the one forKey found,
\* with the composite ETag, the parts and the actual size.
CompletedAttrs(xa2, v) ==
    [xa2 EXCEPT !.ETag = v.s3MD5, !.Parts = v.Parts,
                !.Metadata = WithMetadata(xa2.Metadata,
                                          ReservedMetadataPrefix \o "actual-size",
                                          FormatInt(v.objectActualSize))]

\* CompleteMultipartUpload from the second forKey on.
CompleteFinish(dir, key, uploadID, v) ==
    IF path(key).err # "nil" THEN CompleteFailed(dir, path(key).err)
    ELSE IF Stat(dir, path(key).path).err # "nil" THEN CompleteFailed(dir, "NotExist")
    ELSE IF getAttrs(dir, path(key).path).err # "nil" THEN CompleteFailed(dir, "decode")
    ELSE IF ~CanCreateAttrs(dir, path(key).path) THEN CompleteFailed(dir, "setAttrs")
    ELSE [fs   |-> Remove(RemoveAll(setAttrs(dir, path(key).path, AttrsIno(CompleteWriterID),
                                            CompletedAttrs(getAttrs(dir, path(key).path).xa, v)),
                                   getUploadIDDir(key, uploadID)),
                          getMultipartSHADir(key)),
          err  |-> "nil",
          info |-> [Key |-> key, Size |-> Stat(dir, path(key).path).Size,
                    MD5 |-> getAttrs(dir, path(key).path).xa.MD5, ETag |-> v.s3MD5,
                    IsDir |-> FALSE]]

\* After the loop: return its error, or close the writer and go on.
CompleteClosed(c, key, uploadID, v) ==
    IF c.w.err # "nil" THEN CompleteFailed(c.fs, c.w.err)
    ELSE CompleteFinish(c.fs, key, uploadID, v)

CompleteCopied(c, key, uploadID, v, ok) ==
    IF c.err # "nil" THEN CompleteFailed(c.fs, c.err)
    ELSE CompleteClosed(WriterCloseOf(c, ok), key, uploadID, v)

CompleteOpened(s, key, uploadID, v, canceled, ok) ==
    IF s.w.pc # "open" THEN CompleteFailed(s.fs, s.w.err)
    ELSE CompleteCopied(
             CopyParts([fs |-> s.fs, w |-> [s.w EXCEPT !.ctxErr = canceled]],
                       getUploadIDDir(key, uploadID), v.entries, v.parts, 1),
             key, uploadID, v, ok)

\* CompleteMultipartUpload from NewTypedWriter on; canceled tells whether
\* the caller's context is cancelled, ok the answer of the system calls of
\* the writer's Close.
CompleteWrite(dir, key, uploadID, v, canceled, ok) ==
    CompleteOpened(
        NewTypedWriter(dir, CompleteWriterID, key, v.xa.ContentType, WriterOptionsOf(v.xa)),
        key, uploadID, v, canceled, ok)

\* The write after the checks gave v, with nothing in between.
CompleteAfter(dir, key, uploadID, v) ==
    IF v.err # "nil" THEN CompleteFailed(dir, v.err)
    ELSE CompleteWrite(dir, key, uploadID, v, FALSE, TRUE)

\* bucket.CompleteMultipartUpload, with nothing in between.
CompleteMultipartUpload(dir, key, uploadID, parts) ==
    CompleteAfter(dir, key, uploadID, CompleteValidate(dir, key, uploadID, parts))

\* CopyObjectPart after NewMultipartWriter: copy the source, close.
PartCopied(s, data) ==
    IF s.w.pc # "open" THEN [fs |-> s.fs, err |-> s.w.err]
    ELSE [fs  |-> MultipartClose(MultipartWrite(s.fs, s.w, data).fs,
                                 MultipartWrite(s.fs, s.w, data).w).fs,
          err |-> MultipartClose(MultipartWrite(s.fs, s.w, data).fs,
                                 MultipartWrite(s.fs, s.w, data).w).w.err]

\* bucket.CopyObjectPart
CopyObjectPart(dir, id, dstKey, srcKey, uploadID, partNumber) ==
    IF path(srcKey).err # "nil" THEN [fs |-> dir, err |-> path(srcKey).err]
    ELSE IF Stat(dir, path(srcKey).path).err # "nil" THEN [fs |-> dir, err |-> "NotExist"]
    ELSE IF getAttrs(dir, path(srcKey).path).err # "nil" THEN [fs |-> dir, err |-> "decode"]
    ELSE IF OpenRead(dir, path(srcKey).path).err # "nil" THEN [fs |-> dir, err |-> "Open"]
    ELSE PartCopied(
             NewMultipartWriter(dir, id, dstKey, uploadID, partNumber,
                                WriterOptionsOf(getAttrs(dir, path(srcKey).path).xa)),
             OpenRead(dir, path(srcKey).path).data)

(***************************************************************************)
(* The multipart specification: callers that start uploads for one key,    *)
(* upload and copy parts, abort and complete.  CompleteMultipartUpload     *)
(* takes two steps, so that the other callers can run between its checks   *)
(* and its write.                                                          *)
(***************************************************************************)

\* Bounds of the multipart specifications.
NumUploads == 2
MaxParts == 2
MaxListed == 2
MaxRaceListed == 1

\* The key of the uploads.
MultipartKey == KeyA

PartNumbers == {1, 2}

\* The contents of the parts: one of the minimum size, one below it.
BigPart == [i \in 1..globalMinPartSize |-> 7]

SmallPart == <<9>>

PartData == {BigPart, SmallPart}

\* The ETags a caller lists: the ETag of each content, and the ETag of the
\* small content in the form single-part objects have ("-1" at the end).
ListETags == { HexETag(MD5(d)) : d \in PartData } \cup {ToS3ETag(MD5(SmallPart))}

CompleteParts == [PartNumber : PartNumbers, ETag : ListETags]

\* The lists of parts a caller completes with.
PartLists == UNION { [1..n -> CompleteParts] : n \in 0..MaxListed }

\* The callers that run next to others upload parts of the minimum size and
\* copy the object of the key, which is below it, all under one part
\* number, and complete with lists of these.
RaceNumbers == {1}

RaceETags == {HexETag(MD5(BigPart)), HexETag(MD5(Payload(0)))}

RaceLists ==
    UNION { [1..n -> [PartNumber : RaceNumbers, ETag : RaceETags]] : n \in 0..MaxRaceListed }

\* The part files in the directory.
PartFiles(dir) ==
    { p \in DOMAIN dir :
        /\ HasPrefix(p, multipartDirTmp \o Slash)
        /\ ~HasSuffix(p, attrsExt)
        /\ \E n \in PartNumbers : BaseOf(p)[1] = Pad5(n) }

NoCompleter == [pc |-> "idle", u |-> 0, v |-> NotValidated("nil", NoBadPart)]

\* The writers of parts: one caller of NewMultipartWriter at a time, and
\* CopyObjectPart.
PartWriterID == 1
CopyWriterID == 2

\* st: what became of each upload started so far ("pending", "aborted" or
\* "completed"); pw, pwu: the open part writer and the upload it writes to;
\* cp: the caller inside CompleteMultipartUpload.
InitMultipart ==
    /\ fs = WriteAll(EmptyDir, 0, MultipartKey, "text/html", NoOpts, Payload(0)).fs
    /\ wr = [w \in Writers |-> NoWriter]
    /\ rd = [r \in Readers |-> NoReader]
    /\ it = NoIter
    /\ fw = NoFacadeWriter
    /\ ioFaults = FALSE
    /\ mp = [pc |-> "run", st |-> <<>>, pw |-> NoPartWriter, pwu |-> 0, cp |-> NoCompleter]

ApplyMultipart(dir, m) == fs' = dir /\ mp' = m /\ UNCHANGED <<wr, rd, it, fw, ioFaults>>

Uploads == 1..Len(mp.st)

UploadReturned(s) == ApplyMultipart(s.fs, [mp EXCEPT !.st = Append(@, "pending")])

DoNewMultipartUpload ==
    /\ mp.pc = "run"
    /\ Len(mp.st) < NumUploads
    /\ UploadReturned(NewMultipartUpload(fs, Len(mp.st) + 1, MultipartKey, "text/plain", NoOpts,
                                         TRUE))

PartOpened(s, u) ==
    ApplyMultipart(s.fs, [mp EXCEPT !.pw = IF s.w.pc = "open" THEN s.w ELSE NoPartWriter,
                                    !.pwu = IF s.w.pc = "open" THEN u ELSE 0])

DoNewMultipartWriter ==
    /\ mp.pc = "run"
    /\ mp.pw.pc = "idle"
    /\ Cardinality(PartFiles(fs)) < MaxParts
    /\ \E u \in Uploads, n \in RaceNumbers :
          PartOpened(NewMultipartWriter(fs, PartWriterID, MultipartKey, MustGetUUID(u), n,
                                        NoOpts), u)

PartWritten(s) == ApplyMultipart(s.fs, [mp EXCEPT !.pw = s.w])

DoMultipartWrite ==
    /\ mp.pc = "run"
    /\ mp.pw.pc = "open"
    /\ mp.pw.md5hash = <<>>
    /\ PartWritten(MultipartWrite(fs, mp.pw, BigPart))

PartClosed(s) == ApplyMultipart(s.fs, [mp EXCEPT !.pw = NoPartWriter, !.pwu = 0])

DoMultipartClose ==
    /\ mp.pc = "run"
    /\ mp.pw.pc = "open"
    /\ mp.pw.md5hash # <<>>
    /\ PartClosed(MultipartClose(fs, mp.pw))

PartCopyDone(s) == ApplyMultipart(s.fs, mp)

DoCopyObjectPart ==
    /\ mp.pc = "run"
    /\ Cardinality(PartFiles(fs)) + (IF mp.pw.pc = "open" THEN 1 ELSE 0) < MaxParts
    /\ \E u \in Uploads, n \in RaceNumbers :
          PartCopyDone(CopyObjectPart(fs, CopyWriterID, MultipartKey, MultipartKey,
                                      MustGetUUID(u), n))

Aborted(s, u) ==
    ApplyMultipart(s.fs, [mp EXCEPT !.st[u] = IF s.err = "nil" /\ @ = "pending"
                                              THEN "aborted" ELSE @])

DoAbortMultipartUpload ==
    /\ mp.pc = "run"
    /\ \E u \in Uploads : Aborted(AbortMultipartUpload(fs, MultipartKey, MustGetUUID(u)), u)

CompleteChecked(v, u) ==
    IF v.err # "nil"
    THEN ApplyMultipart(fs, mp)
    ELSE ApplyMultipart(fs, [mp EXCEPT !.cp = [pc |-> "validated", u |-> u, v |-> v]])

DoCompleteValidate ==
    /\ mp.pc = "run"
    /\ mp.cp.pc = "idle"
    /\ \E u \in Uploads, parts \in RaceLists :
          CompleteChecked(CompleteValidate(fs, MultipartKey, MustGetUUID(u), parts), u)

CompleteReturned(r) ==
    ApplyMultipart(r.fs,
        [mp EXCEPT !.cp = NoCompleter,
                   !.st[mp.cp.u] = IF r.err = "nil" THEN "completed" ELSE @])

DoCompleteWrite ==
    /\ mp.pc = "run"
    /\ mp.cp.pc = "validated"
    /\ \E canceled \in BOOLEAN :
          CompleteReturned(CompleteWrite(fs, MultipartKey, MustGetUUID(mp.cp.u), mp.cp.v,
                                         canceled, TRUE))

NextMultipart ==
    \/ DoNewMultipartUpload
    \/ DoNewMultipartWriter
    \/ DoMultipartWrite
    \/ DoMultipartClose
    \/ DoCopyObjectPart
    \/ DoAbortMultipartUpload
    \/ DoCompleteValidate
    \/ DoCompleteWrite

SpecMultipart == InitMultipart /\ [][NextMultipart]_vars

(***************************************************************************)
(* Properties of concurrent writes and reads                               *)
(***************************************************************************)

\* What a caller that runs Bucket.ReadAll(key) alone gets: forKey, os.Open
\* and the reads, with nothing in between.
ReadAll(dir, key) ==
    LET pp == path(key) IN
    IF pp.err # "nil" \/ Stat(dir, pp.path).err # "nil" \/ getAttrs(dir, pp.path).err # "nil"
       \/ OpenRead(dir, pp.path).err # "nil"
    THEN [ok |-> FALSE, data |-> <<>>]
    ELSE [ok |-> TRUE, data |-> OpenRead(dir, pp.path).data]

\* The complete byte sequences of the finalized writes: the bytes of the
\* write that made the objects of InitDirs, and all the bytes each writer
\* that has closed successfully was given.
CompleteWrites ==
    {Payload(0)} \cup
    { wr[w].md5hash : w \in { v \in Writers : wr[v].pc = "done" /\ wr[v].err = "nil" } }

Renamed(w) == wr[w].pc = "rename" /\ wr'[w].pc = "done" /\ wr'[w].err = "nil"

InProgress(w) == wr[w].pc \in {"open", "encode", "rename"}

\* The side-record of the write that made the objects of InitDirs.
InitAttrs ==
    [xattrs(NoOpts, "text/html") EXCEPT !.MD5 = MD5(Payload(0)), !.ETag = ToS3ETag(MD5(Payload(0)))]

C1_ContentComplete ==
    /\ \A k \in Keys : IsFile(fs, path(k).path) => fs[path(k).path].data \in CompleteWrites
    /\ \A r \in Readers :
          rd[r].pc = "done" /\ rd[r].op = "NewRangeReader" /\ rd[r].err = "nil"
              => rd[r].data \in CompleteWrites

C1_LastRenameWins ==
    \A w \in Writers : wr'[w] # wr[w] =>
        \A k \in Keys :
            IF Renamed(w) /\ wr[w].key = k
            THEN OpenRead(fs', path(k).path) = [err |-> "nil", data |-> wr[w].md5hash]
            ELSE IsFile(fs, path(k).path) /\ IsFile(fs', path(k).path)
                    => fs'[path(k).path].data = fs[path(k).path].data

\* C1: under concurrent writers of a key, the content at the key is at every
\* moment the complete bytes of one write, every full read returns the
\* complete bytes of one write, each successful rename makes its writer's
\* bytes the content, and no other writer step changes the content.
C1_AtomicLastWriterWins == []C1_ContentComplete /\ [][C1_LastRenameWins]_vars

\* Two writers of the same key have both closed successfully and the key
\* holds the bytes of writer 1.
C1_Witness ==
    /\ wr[1].pc = "done" /\ wr[1].err = "nil"
    /\ wr[2].pc = "done" /\ wr[2].err = "nil"
    /\ wr[1].key = wr[2].key
    /\ wr[2].md5hash = Payload(2)
    /\ ReadAll(fs, wr[1].key) = [ok |-> TRUE, data |-> Payload(1)]

\* C2: the side-record a reader gets belongs to the write whose content it
\* gets, and once every writer has closed the stored MD5 is the MD5 of the
\* stored content.
C2_SideRecordMatchesContent ==
    /\ \A r \in Readers :
          rd[r].pc = "done" /\ rd[r].op = "NewRangeReader" /\ rd[r].err = "nil"
              => rd[r].xa.MD5 = MD5(rd[r].data)
    /\ (\A w \in Writers : wr[w].pc \in {"idle", "done"}) =>
          \A k \in Keys : IsFile(fs, path(k).path) =>
              getAttrs(fs, path(k).path) =
                  [err |-> "nil", xa |-> [getAttrs(fs, path(k).path).xa EXCEPT
                                             !.MD5 = MD5(fs[path(k).path].data)]]

\* C3: a step of a writer that leaves it open (NewTypedWriter, Write), or
\* closes it with the cancellation error, does not change
\* what ReadAll of the writer's key returns; with no other writer around the
\* key still reads as the bytes it started with, or fails.
C3_Step ==
    \A w \in Writers :
        /\ wr'[w] # wr[w]
        /\ wr'[w].pc = "open" \/ (wr'[w].pc = "done" /\ wr'[w].err = "canceled")
        => /\ ReadAll(fs', wr'[w].key) = ReadAll(fs, wr'[w].key)
           /\ (\A v \in Writers \ {w} : wr[v].pc = "idle")
                 => ReadAll(fs', wr'[w].key) \in
                       {[ok |-> FALSE, data |-> <<>>], [ok |-> TRUE, data |-> Payload(0)]}

C3_NoEffectBeforeClose == [][C3_Step]_vars

\* A writer wrote all its bytes to an existing key and was closed after its
\* context was cancelled; the key still reads as before.
C3_Witness ==
    \E w \in Writers :
        /\ wr[w].pc = "done" /\ wr[w].err = "canceled"
        /\ Len(wr[w].md5hash) = DataLen
        /\ ReadAll(fs, wr[w].key) = [ok |-> TRUE, data |-> Payload(0)]

\* C4: when a writer's Close has returned an error, the object at its key is
\* as it was before the write began (stated for a writer that ran alone: the
\* object InitDirs put there with its side-record, or nothing at all).
C4_FailedCloseLeavesObject ==
    \A w \in Writers :
        /\ wr[w].pc = "done" /\ wr[w].err # "nil" /\ wr[w].path # <<>>
        /\ \A v \in Writers \ {w} : wr[v].pc = "idle"
        => IF IsFile(fs, wr[w].path)
           THEN /\ fs[wr[w].path].data = Payload(0)
                /\ getAttrs(fs, wr[w].path) = [err |-> "nil", xa |-> InitAttrs]
           ELSE (wr[w].path \o attrsExt) \notin DOMAIN fs

\* The keys of a complete listing of the bucket.
ListedKeys(dir) ==
    LET page == ListPaged(dir, ListOptions(<<>>, <<>>, 0, <<>>))
    IN  { page.Objects[i].Key : i \in 1..Len(page.Objects) }

\* C10: while a write is in progress, no entry of a listing is backed by the
\* file of that write (its temporary file, or its target before the rename).
C10_ListHidesInProgress ==
    \A w \in Writers : InProgress(w) =>
        \A k \in ListedKeys(fs) :
            ~(IsFile(fs, path(k).path) /\ fs[path(k).path].ino = DataIno(w))

(***************************************************************************)
(* Properties of paging                                                    *)
(***************************************************************************)

RECURSIVE Flatten(_)
Flatten(pages) == IF pages = <<>> THEN <<>> ELSE Head(pages) \o Flatten(Tail(pages))

KeysOf(objs) == { objs[i].Key : i \in 1..Len(objs) }

\* The stored keys a listing with the caller's prefix has to return.
Matching(keys) == { k \in keys : HasPrefix(k, it.opts.Prefix) }

\* C6: paging through an unchanging bucket with page size n >= 1 returns
\* every key with the prefix exactly once, at most n entries per page, and
\* no empty page after the page with the last entry.
C6_PagingComplete ==
    it.pc = "end" /\ it.inserted = {} /\ it.opts.Delimiter = <<>> /\ it.opts.PageSize >= 1
    => LET objs == Flatten(it.pages) IN
       /\ KeysOf(objs) = Matching(StoredKeys(fs))
       /\ Len(objs) = Cardinality(Matching(StoredKeys(fs)))
       /\ \A i \in 1..Len(it.pages) : Len(it.pages[i]) <= it.opts.PageSize
       /\ Len(it.pages) > 1 => it.pages[Len(it.pages)] # <<>>

Min(a, b) == IF a < b THEN a ELSE b

\* C7: after an object with a key at or before the last key of a returned
\* page was written, the next page holds neither that key nor a key returned
\* before, and holds the not yet returned keys that existed all along (as
\* many of them as the page size admits).
C7_StableAfterInsert ==
    \A ins \in it.inserted :
        LET before == Flatten(SubSeq(it.pages, 1, ins.after))
            remaining == Matching(it.start) \ KeysOf(before)
        IN  /\ it.opts.Delimiter = <<>>
            /\ Len(it.pages) > ins.after
            /\ before # <<>>
            /\ StrLeq(ins.key, before[Len(before)].Key)
            => LET next == KeysOf(it.pages[ins.after + 1]) IN
               /\ ins.key \notin next
               /\ next \cap KeysOf(before) = {}
               /\ Cardinality(next \cap remaining)
                     = Min(PageSizeOf(it.opts), Cardinality(remaining))

\* C8: the entries of the pages are in strictly increasing order of their
\* keys, within each page and from one page to the next.
C8_ListedInKeyOrder ==
    LET objs == Flatten(it.pages) IN
    \A i, j \in 1..Len(objs) : i < j => StrLess(objs[i].Key, objs[j].Key)

\* The entry a stored key is listed as under the caller's prefix and
\* delimiter: itself, or the "directory" up to the first delimiter.
Collapsed(k) ==
    LET rest == Drop(k, Len(it.opts.Prefix))
        idx == Index(rest, it.opts.Delimiter)
    IN  IF idx = -1 THEN [Key |-> k, IsDir |-> FALSE]
        ELSE [Key |-> it.opts.Prefix \o SubSeq(rest, 1, idx + Len(it.opts.Delimiter)),
              IsDir |-> TRUE]

\* C9: with a delimiter, a listing in one page or in pages of size 1
\* returns, each exactly once, a directory entry for every segment under
\* which an object exists and the keys without a delimiter after the prefix.
C9_DelimiterCollapses ==
    it.pc = "end" /\ it.inserted = {} /\ it.opts.Delimiter # <<>> /\ it.opts.PageSize \in {0, 1}
    => LET objs == Flatten(it.pages)
           expected == { Collapsed(k) : k \in Matching(StoredKeys(fs)) }
       IN  /\ { [Key |-> objs[i].Key, IsDir |-> objs[i].IsDir] : i \in 1..Len(objs) } = expected
           /\ Len(objs) = Cardinality(expected)

(***************************************************************************)
(* Properties of the facade Writer                                         *)
(***************************************************************************)

\* C5: after a successful NewWriter, Write..., Close, a full read of the key
\* returns the bytes of the Write calls in order, and the size is their
\* number, however the bytes were cut into Write calls.
C5_WriteReadFidelity ==
    fw.pc = "closed" /\ fw.err = "nil"
    => /\ ReadAll(fs, fw.key) = [ok |-> TRUE, data |-> Stream(1, fw.sent)]
       /\ Stat(fs, path(fw.key).path) = [err |-> "nil", Size |-> fw.sent]

\* A Writer without content type was closed successfully after three Write
\* calls of which the second crossed the sniffing threshold.
C5_Witness ==
    /\ fw.pc = "closed" /\ fw.err = "nil"
    /\ fw.calls = 3
    /\ fw.sent = (sniffLen - 1) + (sniffLen + 1) + 1
    /\ fw.w.attrs.ContentType = "application/octet-stream"
    /\ ReadAll(fs, fw.key).data = Stream(1, fw.sent)

(***************************************************************************)
(* The completion specification: one upload for the key with any set of    *)
(* uploaded parts, and one call of CompleteMultipartUpload with any list.  *)
(***************************************************************************)

\* NewMultipartWriter, Write and Close of one part.
PartDataWritten(s, data) == MultipartWrite(s.fs, s.w, data)

PartStored(s) == MultipartClose(s.fs, s.w).fs

WritePart(dir, key, uploadID, partNumber, data) ==
    PartStored(PartDataWritten(
        NewMultipartWriter(dir, PartWriterID, key, uploadID, partNumber, NoOpts), data))

\* The parts of given, pairs of a part number and a content, uploaded one
\* after the other.
RECURSIVE UploadParts(_, _, _, _)
UploadParts(dir, key, uploadID, given) ==
    IF given = {} THEN dir
    ELSE LET x == CHOOSE y \in given : TRUE
         IN  UploadParts(WritePart(dir, key, uploadID, x[1], x[2]), key, uploadID,
                         given \ {x})

\* The bucket before the upload: empty, or with an object at the key.
BucketsBefore ==
    {EmptyDir, WriteAll(EmptyDir, 0, MultipartKey, "text/html", NoOpts, Payload(0)).fs}

\* The bucket after NewMultipartUpload and the upload of the parts of given.
Uploaded(before, given) ==
    UploadParts(NewMultipartUpload(before, 1, MultipartKey, "text/plain", NoOpts, TRUE).fs,
                MultipartKey, MustGetUUID(1), given)

NoResult == [err |-> "nil", bad |-> NoBadPart, info |-> NoObjectInfo]

\* given: the parts uploaded; before: the bucket before the upload; parts:
\* the list of the caller; r: what CompleteMultipartUpload returned.
InitComplete ==
    /\ \E before \in BucketsBefore, given \in SUBSET (PartNumbers \X PartData),
          parts \in PartLists :
          /\ fs = Uploaded(before, given)
          /\ mp = [pc |-> "call", given |-> given, before |-> before, parts |-> parts,
                   r |-> NoResult]
    /\ wr = [w \in Writers |-> NoWriter]
    /\ rd = [r \in Readers |-> NoReader]
    /\ it = NoIter
    /\ fw = NoFacadeWriter
    /\ ioFaults = FALSE

CompleteDone(r, bad) ==
    ApplyMultipart(r.fs, [mp EXCEPT !.pc = "returned",
                                    !.r = [err |-> r.err, bad |-> bad, info |-> r.info]])

DoCompleteMultipartUpload ==
    /\ mp.pc = "call"
    /\ CompleteDone(CompleteMultipartUpload(fs, MultipartKey, MustGetUUID(1), mp.parts),
                    CompleteValidate(fs, MultipartKey, MustGetUUID(1), mp.parts).bad)

NextComplete == DoCompleteMultipartUpload

SpecComplete == InitComplete /\ [][NextComplete]_vars

(***************************************************************************)
(* Properties of a completion                                              *)
(***************************************************************************)

\* The i-th listed pair names an uploaded part: one uploaded with that
\* number whose content has that digest.
Resolves(i) ==
    \E d \in PartData :
        /\ <<mp.parts[i].PartNumber, d>> \in mp.given
        /\ HexETag(MD5(d)) = mp.parts[i].ETag

\* The bytes uploaded for the i-th listed pair.
ListedData(i) ==
    CHOOSE d \in PartData :
        /\ <<mp.parts[i].PartNumber, d>> \in mp.given
        /\ HexETag(MD5(d)) = mp.parts[i].ETag

RECURSIVE ConcatListed(_)
ConcatListed(i) ==
    IF i > Len(mp.parts) THEN <<>> ELSE ListedData(i) \o ConcatListed(i + 1)

Completed == mp.pc = "returned" /\ mp.r.err = "nil"

\* C12: after a successful CompleteMultipartUpload the object at the key
\* holds the bytes of the listed parts, one after the other in the order of
\* the caller's list.
C12_ContentIsConcatenation ==
    Completed =>
        /\ \A i \in 1..Len(mp.parts) : Resolves(i)
        /\ ReadAll(fs, MultipartKey) = [ok |-> TRUE, data |-> ConcatListed(1)]

\* A completion that lists part 2 before part 1, with different bytes.
C12_Witness ==
    /\ Completed
    /\ Len(mp.parts) = 2
    /\ mp.parts[1].PartNumber = 2 /\ mp.parts[2].PartNumber = 1
    /\ ListedData(1) = BigPart /\ ListedData(2) = SmallPart
    /\ ReadAll(fs, MultipartKey).data = BigPart \o SmallPart

\* The MD5 digests of the listed parts' bytes, one after the other.
RECURSIVE DigestsListed(_)
DigestsListed(i) ==
    IF i > Len(mp.parts) THEN <<>>
    ELSE SumBytes(MD5(ListedData(i))) \o DigestsListed(i + 1)

\* hex(MD5(m1 || ... || mn)) followed by "-n"
CompositeETag == [hex |-> MD5(DigestsListed(1)), suffix |-> Len(mp.parts)]

\* C13: a successful CompleteMultipartUpload with n parts stores in the
\* side-record of the object, and returns, the ETag made of the hex MD5 of
\* the parts' MD5 digests in the caller's order, "-" and n.
C13_CompositeETag ==
    Completed =>
        /\ mp.r.info.ETag = CompositeETag
        /\ getAttrs(fs, path(MultipartKey).path).err = "nil"
        /\ getAttrs(fs, path(MultipartKey).path).xa.ETag = CompositeETag
        /\ ETagString(CompositeETag)
               = ToString(DigestsListed(1)) \o "-" \o ToString(Len(mp.parts))

\* A completion of two parts with different digests.
C13_Witness ==
    /\ Completed
    /\ Len(mp.parts) = 2
    /\ ListedData(1) = BigPart /\ ListedData(2) = SmallPart
    /\ mp.r.info.ETag
           = [hex |-> MD5(SumBytes(MD5(BigPart)) \o SumBytes(MD5(SmallPart))), suffix |-> 2]
    /\ getAttrs(fs, path(MultipartKey).path).xa.ETag = mp.r.info.ETag

\* Every listed ETag is a hex digest.
HexListed == \A i \in 1..Len(mp.parts) : mp.parts[i].ETag.suffix = NoSuffix

\* The i-th listed pair is the first the checks stop at for its size: it is
\* not the last, it and the pairs before it name uploaded parts, and it is
\* the first below the minimum size.
FirstTooSmall(i) ==
    /\ i < Len(mp.parts)
    /\ \A j \in 1..i : Resolves(j)
    /\ Len(ListedData(i)) < globalMinPartSize
    /\ \A j \in 1..(i - 1) : Len(ListedData(j)) >= globalMinPartSize

\* The part the error names is the i-th listed, with its size.
NamesPart(i) ==
    /\ mp.r.bad.PartNumber = mp.parts[i].PartNumber
    /\ mp.r.bad.ETag = mp.parts[i].ETag
    /\ mp.r.bad.PartSize = Len(ListedData(i))

NothingWritten == fs = Uploaded(mp.before, mp.given)

FirstUnresolved(i) ==
    /\ ~Resolves(i)
    /\ \A j \in 1..(i - 1) : Resolves(j) /\ Len(ListedData(j)) >= globalMinPartSize

\* The side-record of the object lists the parts uploaded under the listed
\* numbers and digests.
PartsResolved ==
    /\ \A i \in 1..Len(mp.parts) : Resolves(i)
    /\ getAttrs(fs, path(MultipartKey).path).xa.Parts
           = [i \in 1..Len(mp.parts) |->
                 ObjectPartInfo(mp.parts[i], Len(ListedData(i)), Len(ListedData(i)))]

\* C15: CompleteMultipartUpload takes for every listed pair the part
\* uploaded with that number and that digest, also when the number was
\* uploaded several times; when the upload holds no such part it fails with
\* InvalidPart, which names the pair, and the bucket is as it was.
C15_InvalidPartNamed ==
    mp.pc = "returned" =>
        /\ Completed => PartsResolved
        /\ \A i \in 1..Len(mp.parts) :
               FirstUnresolved(i) =>
                   /\ mp.r.err = "InvalidPart"
                   /\ mp.r.bad.PartNumber = mp.parts[i].PartNumber
                   /\ mp.r.bad.ETag = mp.parts[i].ETag
                   /\ NothingWritten

(***************************************************************************)
(* Properties of multipart uploads next to other callers                   *)
(***************************************************************************)

\* What a reader of the key gets: the content and the attributes.
ObjectOf(dir, key) ==
    IF path(key).err # "nil" \/ ~IsFile(dir, path(key).path) THEN [ok |-> FALSE]
    ELSE [ok |-> TRUE, data |-> dir[path(key).path].data,
          attrs |-> getAttrs(dir, path(key).path)]

\* The manifest and the parts of an upload: all there is below its
\* directory.
UploadOf(dir, key, uploadID) ==
    [p \in { q \in DOMAIN dir : HasPrefix(q, getUploadIDDir(key, uploadID)) } |-> dir[p]]

\* The upload is pending: its manifest is there.
Pending(dir, key, uploadID) ==
    Exists(dir, JoinPath(getUploadIDDir(key, uploadID), fsMultipartJSONFile))

\* What the caller inside CompleteMultipartUpload gets when it goes on now.
CompleterResult(canceled) ==
    CompleteWrite(fs, MultipartKey, MustGetUUID(mp.cp.u), mp.cp.v, canceled, TRUE)

\* C11: when CompleteMultipartUpload returns an error, the content and the
\* attributes of the destination are what they were, and the upload, unless
\* it was aborted, is still there with its manifest and all its parts.
C11_ErrorLeavesDestination ==
    mp.cp.pc = "validated" =>
        \A canceled \in BOOLEAN :
            CompleterResult(canceled).err # "nil" =>
                /\ ObjectOf(CompleterResult(canceled).fs, MultipartKey) = ObjectOf(fs, MultipartKey)
                /\ UploadOf(CompleterResult(canceled).fs, MultipartKey, MustGetUUID(mp.cp.u))
                       = UploadOf(fs, MultipartKey, MustGetUUID(mp.cp.u))

\* C16: AbortMultipartUpload for an upload that was aborted before returns
\* success and changes nothing.
C16_AbortIdempotent ==
    \A u \in Uploads :
        mp.st[u] = "aborted" =>
            /\ AbortMultipartUpload(fs, MultipartKey, MustGetUUID(u)).err = "nil"
            /\ AbortMultipartUpload(fs, MultipartKey, MustGetUUID(u)).fs = fs

\* The upload was aborted or completed.
Gone(u) == mp.st[u] \in {"aborted", "completed"}

FailsUnchanged(r) == r.err # "nil" /\ r.fs = fs

PartWriterFails(s) == s.w.err # "nil" /\ s.w.pc # "open" /\ s.fs = fs

\* What Close of the open part writer gives now.
PartCloseResult == MultipartClose(fs, mp.pw)

\* C17: with the ID of an upload that was aborted or completed,
\* NewMultipartWriter, CopyObjectPart and CompleteMultipartUpload fail and
\* change nothing; and Close of a part writer whose upload is gone meanwhile
\* fails and leaves no part.
C17_PartsOnlyWhilePending ==
    /\ \A u \in Uploads :
           Gone(u) =>
               /\ \A n \in PartNumbers :
                      /\ PartWriterFails(NewMultipartWriter(fs, PartWriterID, MultipartKey,
                                                            MustGetUUID(u), n, NoOpts))
                      /\ FailsUnchanged(CopyObjectPart(fs, CopyWriterID, MultipartKey,
                                                       MultipartKey, MustGetUUID(u), n))
               /\ \A parts \in RaceLists :
                      FailsUnchanged(CompleteMultipartUpload(fs, MultipartKey,
                                                             MustGetUUID(u), parts))
    /\ mp.pw.pc = "open" /\ Gone(mp.pwu) =>
           /\ PartCloseResult.w.err # "nil"
           /\ PartFiles(PartCloseResult.fs) = PartFiles(fs)
           /\ UploadOf(PartCloseResult.fs, MultipartKey, MustGetUUID(mp.pwu)) = <<>>

\* A part writer with bytes written whose upload was aborted, next to an
\* upload that was completed.
C17_Witness ==
    /\ mp.pw.pc = "open"
    /\ mp.pw.md5hash # <<>>
    /\ mp.st[mp.pwu] = "aborted"
    /\ \E u \in Uploads : mp.st[u] = "completed"
    /\ PartCloseResult.w.err # "nil"

\* The part of upload u with number n and ETag e, <<>> when there is none.
PartOf(u, n, e) ==
    getPartFile(PartEntries(ReadDir(fs, getUploadIDDir(MultipartKey, MustGetUUID(u))).entries),
                n, e)

CompletedAs(r, data) == r.err = "nil" /\ ReadAll(r.fs, MultipartKey).data = data

\* Completing upload u now with the one part (n, e) succeeds and makes the
\* bytes of that part the object.
CompletesWith(u, n, e) ==
    CompletedAs(CompleteMultipartUpload(fs, MultipartKey, MustGetUUID(u),
                                        <<[PartNumber |-> n, ETag |-> e]>>),
                fs[JoinPath(getUploadIDDir(MultipartKey, MustGetUUID(u)), PartOf(u, n, e))].data)

\* The uploads have different IDs and directories, and an upload that was
\* itself neither aborted nor completed has its manifest and can be
\* completed with each of its parts, whatever was done to the others.
C18_StillCompletable ==
    /\ \A u, v \in Uploads :
           u # v => /\ MustGetUUID(u) # MustGetUUID(v)
                    /\ getUploadIDDir(MultipartKey, MustGetUUID(u))
                           # getUploadIDDir(MultipartKey, MustGetUUID(v))
    /\ \A u \in Uploads :
           mp.st[u] = "pending" =>
               /\ Pending(fs, MultipartKey, MustGetUUID(u))
               /\ \A n \in PartNumbers, e \in RaceETags :
                      PartOf(u, n, e) # <<>> => CompletesWith(u, n, e)

\* The paths that are not the same in the two directories.
ChangedPaths(dir1, dir2) ==
    { p \in DOMAIN dir1 \cup DOMAIN dir2 :
        p \notin DOMAIN dir1 \/ p \notin DOMAIN dir2 \/ dir1[p] # dir2[p] }

\* The uploads with a path of changed in their directory.
UploadsOf(changed) ==
    { u \in 1..NumUploads :
        \E p \in changed : HasPrefix(p, getUploadIDDir(MultipartKey, MustGetUUID(u))) }

\* A step changes the manifest and the parts of at most one upload.
C18_OneUploadChanges ==
    fs' = fs \/ Cardinality(UploadsOf(ChangedPaths(fs, fs'))) <= 1

MaxKeyLen == 3

CodecChars == {"a", ".", "/"}

\* What escapeBlobKey makes of the key "/", taken as a key.
EscapedSlashKey == HexEscapeRune("/")

\* The keys: the strings of CodecChars up to MaxKeyLen, and EscapedSlashKey.
CodecKeys ==
    UNION { [1..n -> CodecChars] : n \in 1..MaxKeyLen } \cup {EscapedSlashKey}

InitCodec ==
    /\ fs = EmptyDir
    /\ wr = [w \in Writers |-> NoWriter]
    /\ rd = [r \in Readers |-> NoReader]
    /\ it = NoIter
    /\ fw = NoFacadeWriter
    /\ ioFaults = FALSE
    /\ \E k1, k2 \in CodecKeys : mp = [pc |-> "keys", k1 |-> k1, k2 |-> k2]

\* bucket.path of the two keys
DoPath ==
    /\ mp.pc = "keys"
    /\ mp' = [pc |-> "paths", k1 |-> mp.k1, k2 |-> mp.k2,
              p1 |-> path(mp.k1), p2 |-> path(mp.k2)]
    /\ UNCHANGED <<fs, wr, rd, it, fw, ioFaults>>

\* escapeBlobKey, then unescapeBlobKey
DoRoundTrip ==
    /\ mp.pc = "keys"
    /\ mp' = [pc |-> "decoded", k1 |-> mp.k1, k2 |-> mp.k2,
              back |-> unescapeBlobKey(escapeBlobKey(mp.k1))]
    /\ UNCHANGED <<fs, wr, rd, it, fw, ioFaults>>

\* The path is strictly beneath the bucket directory: not the directory
\* itself, and not a path that leaves it.
Beneath(p) == p # <<>> /\ SplitSlash(p)[1] # DotDot

\* WriteAll of the first key into the empty bucket, then a listing.  Only
\* for keys whose path lies in the bucket: the directory entries of the
\* model are the paths below it.
DoWriteAndList ==
    /\ mp.pc = "keys"
    /\ path(mp.k1).err = "nil"
    /\ Beneath(path(mp.k1).path)
    /\ fs' = WriteAll(fs, 0, mp.k1, "text/plain", NoOpts, Payload(0)).fs
    /\ mp' = [pc |-> "listed", k1 |-> mp.k1, k2 |-> mp.k2,
              listed |-> ListedKeys(WriteAll(fs, 0, mp.k1, "text/plain", NoOpts,
                                             Payload(0)).fs)]
    /\ UNCHANGED <<wr, rd, it, fw, ioFaults>>

NextCodec == DoPath \/ DoRoundTrip \/ DoWriteAndList

SpecCodec == InitCodec /\ [][NextCodec]_vars

(***************************************************************************)
(* Properties of the key codec                                             *)
(***************************************************************************)

\* C19: two different keys map to two different paths, and the path of a
\* key is strictly beneath the bucket directory, also for keys with "." or
\* ".." segments, repeated "/" or a "/" at the end.
C19_PathsDistinctBeneathRoot ==
    mp.pc = "paths" /\ mp.p1.err = "nil" /\ mp.p2.err = "nil" =>
        /\ mp.k1 # mp.k2 => mp.p1.path # mp.p2.path
        /\ Beneath(mp.p1.path)

\* C20: unescapeBlobKey gives back the key escapeBlobKey was given, and a
\* listing after a key was written reports that key and no other.
C20_RoundTripAndListed ==
    /\ mp.pc = "decoded" => mp.back = mp.k1
    /\ mp.pc = "listed" => mp.listed = {mp.k1}

(***************************************************************************)
(* Driver operations on whole objects (bucket.forKey, bucket.Attributes,   *)
(* bucket.NewRangeReader, bucket.Copy, bucket.ErrorCode)                   *)
(***************************************************************************)

\* bucket.ErrorCode: the code the facade gives to a driver error.
ErrorCode(err) == IF err = "NotExist" THEN "NotFound" ELSE "Unknown"

NoInfo == [err |-> "nil", path |-> <<>>, Size |-> 0, xa |-> DefaultAttrs]

\* bucket.forKey after bucket.path: os.Stat, then getAttrs.
forKeyAt(dir, p) ==
    IF Stat(dir, p).err # "nil" THEN [NoInfo EXCEPT !.err = Stat(dir, p).err]
    ELSE IF getAttrs(dir, p).err # "nil" THEN [NoInfo EXCEPT !.err = getAttrs(dir, p).err]
    ELSE [err |-> "nil", path |-> p, Size |-> Stat(dir, p).Size, xa |-> getAttrs(dir, p).xa]

\* bucket.forKey
forKey(dir, key) ==
    IF path(key).err # "nil" THEN [NoInfo EXCEPT !.err = path(key).err]
    ELSE forKeyAt(dir, path(key).path)

\* bucket.Attributes: the attributes of the side-record and the size.
AttributesOf(info) ==
    [err |-> info.err,
     attrs |-> [CacheControl |-> info.xa.CacheControl,
                ContentDisposition |-> info.xa.ContentDisposition,
                ContentEncoding |-> info.xa.ContentEncoding,
                ContentLanguage |-> info.xa.ContentLanguage,
                ContentType |-> info.xa.ContentType,
                Metadata |-> info.xa.Metadata,
                Size |-> info.Size,
                MD5 |-> info.xa.MD5,
                ETag |-> info.xa.ETag]]

Attributes(dir, key) == AttributesOf(forKey(dir, key))

Minimum(a, b) == IF a < b THEN a ELSE b

\* A reader without the io.LimitReader: it reads to the end of the file.
RangeOfUnlimited(data, offset, length) == SubSeq(data, offset + 1, Len(data))

\* What the caller of reader.Read gets until io.EOF from a file of these
\* bytes after f.Seek(offset) and under io.LimitReader(r, length): a seek
\* past the end succeeds and the reads that follow find nothing.
RangeOf(data, offset, length) ==
    LET last == IF length >= 0 THEN Minimum(Len(data), offset + length) ELSE Len(data)
    IN  SubSeq(data, offset + 1, last)

NoReaderResult == [err |-> "nil", readErr |-> "nil", data |-> <<>>, Size |-> 0, ContentType |-> ""]

\* The driver.Reader of NewRangeReader and the bytes its caller reads:
\* os.Open opens a directory too, and reading it fails; a reader limited
\* to no bytes is at its end without a read of the file.
RangeReaderOf(dir, info, offset, length) ==
    IF info.err # "nil" THEN [NoReaderResult EXCEPT !.err = info.err]
    ELSE [err |-> "nil",
          readErr |-> IF length = 0 THEN "nil" ELSE OpenRead(dir, info.path).err,
          data |-> RangeOf(OpenRead(dir, info.path).data, offset, length),
          Size |-> info.Size,
          ContentType |-> info.xa.ContentType]

\* bucket.NewRangeReader(ctx, key, offset, length, opts)
NewRangeReader(dir, key, offset, length) ==
    RangeReaderOf(dir, forKey(dir, key), offset, length)

\* writer.Close run to its end; oks are the answers of os.Create, of the
\* JSON encoder and of os.Rename.
WriterCloseWith(dir, w, oks) ==
    ThenRename(ThenEncodeAttrs(ThenCreateAttrs(CloseBegin(dir, w), oks[1]), oks[2]), oks[3])

\* The options bucket.Copy builds from the side-record of the source.
CopyOptionsOf(xa) ==
    [CacheControl |-> xa.CacheControl, ContentDisposition |-> xa.ContentDisposition,
     ContentEncoding |-> xa.ContentEncoding, ContentLanguage |-> xa.ContentLanguage,
     Metadata |-> xa.Metadata]

\* bucket.Copy from io.Copy on: a failed read cancels the write before it
\* closes the writer.
CopyWritten(s, read, oks) ==
    IF read.err # "nil"
    THEN [fs |-> WriterCloseWith(s.fs, [s.w EXCEPT !.ctxErr = TRUE], oks).fs, err |-> read.err]
    ELSE [fs |-> WriterCloseWith(s.fs, s.w, oks).fs, err |-> WriterCloseWith(s.fs, s.w, oks).w.err]

\* bucket.Copy after NewTypedWriter.
CopyOpened(dir, s, srcPath, oks) ==
    IF s.w.pc # "open" THEN [fs |-> s.fs, err |-> s.w.err]
    ELSE CopyWritten(WriteChunks(s.fs, s.w, OpenRead(dir, srcPath).data),
                     OpenRead(dir, srcPath), oks)

\* bucket.Copy after forKey(srcKey).
CopyFrom(dir, id, dstKey, info, oks) ==
    IF info.err # "nil" THEN [fs |-> dir, err |-> info.err]
    ELSE CopyOpened(dir, NewTypedWriter(dir, id, dstKey, info.xa.ContentType, CopyOptionsOf(info.xa)),
                    info.path, oks)

\* bucket.Copy(ctx, dstKey, srcKey, opts); id names its temporary file.
Copy(dir, id, dstKey, srcKey, oks) == CopyFrom(dir, id, dstKey, forKey(dir, srcKey), oks)

(***************************************************************************)
(* The driver specification: one caller that writes, copies and deletes    *)
(* whole objects, one operation after the other.  The system calls of the  *)
(* Close inside Copy may fail.                                             *)
(***************************************************************************)

KeyAttrs == KeyA \o attrsExt

KeyABAttrs == KeyAB \o attrsExt

\* Keys whose path ends in the reserved extension.
ReservedKeys == {KeyAttrs, KeyABAttrs}

DriverKeys == {KeyA, KeyAB, KeyB} \cup ReservedKeys

\* Options that set every attribute a caller can set.
RichOpts ==
    [CacheControl |-> "no-cache", ContentDisposition |-> "inline",
     ContentEncoding |-> "gzip", ContentLanguage |-> "en",
     Metadata |-> (<<"f">> :> <<"a">>)]

\* The options of the writing callers: the first sets none.
PutterOpts(id) == IF id = 1 THEN NoOpts ELSE RichOpts

\* Bound of the driver specification: the callers that write.
NumPutters == 2

CopyID == 3

\* The answers of os.Create, of the JSON encoder and of os.Rename.
CloseOutcomes == [1..3 -> Outcomes]

InitDriver ==
    /\ fs = EmptyDir
    /\ wr = [w \in Writers |-> NoWriter]
    /\ rd = [r \in Readers |-> NoReader]
    /\ it = NoIter
    /\ fw = NoFacadeWriter
    /\ ioFaults = TRUE
    /\ mp = [pc |-> "driver"]

\* A complete write: NewTypedWriter, Write, Close.
DoDriverWrite ==
    /\ \E id \in 1..NumPutters, key \in DriverKeys :
          fs' = WriteAll(fs, id, key, "text/plain", PutterOpts(id), Payload(id)).fs
    /\ UNCHANGED <<wr, rd, it, fw, ioFaults, mp>>

DoDriverCopy ==
    /\ \E dst \in DriverKeys, src \in DriverKeys, oks \in CloseOutcomes :
          fs' = Copy(fs, CopyID, dst, src, oks).fs
    /\ UNCHANGED <<wr, rd, it, fw, ioFaults, mp>>

DoDriverDelete ==
    /\ \E key \in DriverKeys : fs' = Delete(fs, key).fs
    /\ UNCHANGED <<wr, rd, it, fw, ioFaults, mp>>

NextDriver == DoDriverWrite \/ DoDriverCopy \/ DoDriverDelete

SpecDriver == InitDriver /\ [][NextDriver]_vars

(***************************************************************************)
(* Properties of the driver operations                                     *)
(***************************************************************************)

AllWork == [i \in 1..3 |-> TRUE]

\* The operation returned the reserved-extension error and touched no file.
Reserved(r) == r.err = "errAttrsExt" /\ r.fs = fs

OpenedWriter(s) == [fs |-> s.fs, err |-> s.w.err]

\* Attributes, NewRangeReader, NewTypedWriter and Delete of key k, and Copy
\* from k, are refused with the reserved-extension error.
ReservedRefused(k) ==
    /\ Attributes(fs, k).err = "errAttrsExt"
    /\ NewRangeReader(fs, k, 0, -1).err = "errAttrsExt"
    /\ Reserved(OpenedWriter(NewTypedWriter(fs, 1, k, "text/plain", NoOpts)))
    /\ Reserved(Delete(fs, k))
    /\ \A dst \in DriverKeys, oks \in CloseOutcomes : Reserved(Copy(fs, CopyID, dst, k, oks))

\* C21 as claimed: every driver operation that takes a key (Attributes,
\* NewRangeReader, NewTypedWriter, Copy as source or as destination, Delete)
\* fails with the reserved-extension error, without creating, modifying or
\* removing any file, when the path of the key ends in ".attrs".
C21_ReservedKeyRejected ==
    \A k \in ReservedKeys :
        /\ ReservedRefused(k)
        /\ \A src \in DriverKeys, oks \in CloseOutcomes : Reserved(Copy(fs, CopyID, k, src, oks))

\* C21 as amended: the same, except that Copy to a reserved key looks at its
\* source first: it always fails and touches no file, and its error is the
\* reserved-extension error when the source resolves to an object.
C21_ReservedKeyRejectedOrSourceError ==
    \A k \in ReservedKeys :
        /\ ReservedRefused(k)
        /\ \A src \in DriverKeys, oks \in CloseOutcomes :
              /\ Copy(fs, CopyID, k, src, oks).err # "nil"
              /\ Copy(fs, CopyID, k, src, oks).fs = fs
              /\ forKey(fs, src).err = "nil" => Reserved(Copy(fs, CopyID, k, src, oks))

\* The side-record file of "a" exists at the path of the key "a.attrs",
\* "b" holds an object and "a/b" does not; deleting "a.attrs" and copying
\* "b" to it are refused, copying the missing "a/b" to it fails as well.
C21_Witness ==
    /\ IsFile(fs, KeyAttrs) /\ IsFile(fs, KeyB) /\ ~Exists(fs, KeyAB)
    /\ Reserved(Delete(fs, KeyAttrs))
    /\ Reserved(Copy(fs, CopyID, KeyAttrs, KeyB, AllWork))
    /\ Copy(fs, CopyID, KeyAttrs, KeyAB, AllWork) = [fs |-> fs, err |-> "NotExist"]

(***************************************************************************)
(* The delete specification: a caller of bucket.Delete next to a writer.   *)
(* Delete is cut at its two system calls.                                  *)
(***************************************************************************)

NoDeleter == [pc |-> "idle", key |-> <<>>, path |-> <<>>, err |-> "nil"]

\* bucket.Delete up to and including os.Remove(path).
DeleteContent(dir, key) ==
    LET pp == path(key) IN
    IF pp.err # "nil" THEN [fs |-> dir, d |-> [NoDeleter EXCEPT !.pc = "done", !.key = key, !.err = pp.err]]
    ELSE IF ~CanRemove(dir, pp.path)
         THEN [fs |-> dir,
               d  |-> [pc |-> "done", key |-> key, path |-> pp.path,
                       err |-> IF Exists(dir, pp.path) THEN "NotEmpty" ELSE Missing(dir, pp.path)]]
         ELSE [fs |-> Remove(dir, pp.path),
               d  |-> [pc |-> "removeAttrs", key |-> key, path |-> pp.path, err |-> "nil"]]

\* bucket.Delete from os.Remove(path + attrsExt) on: a side-record that is
\* not there is no error.
DeleteAttrs(dir, d) ==
    LET ap == d.path \o attrsExt IN
    IF Exists(dir, ap) /\ ~CanRemove(dir, ap)
    THEN [fs |-> dir, d |-> [d EXCEPT !.pc = "done", !.err = "NotEmpty"]]
    ELSE [fs |-> Remove(dir, ap), d |-> [d EXCEPT !.pc = "done"]]

\* The one writer of the delete specification.
DeleteWriter == 1

InitDelete ==
    /\ fs \in InitDirs
    /\ wr = [w \in Writers |-> NoWriter]
    /\ rd = [r \in Readers |-> NoReader]
    /\ it = NoIter
    /\ fw = NoFacadeWriter
    /\ ioFaults = FALSE
    /\ mp = NoDeleter

ApplyDelete(s) == fs' = s.fs /\ mp' = s.d /\ UNCHANGED <<wr, rd, it, fw, ioFaults>>

DoDeleteContent ==
    /\ mp.pc = "idle"
    /\ \E key \in Keys : ApplyDelete(DeleteContent(fs, key))

DoDeleteAttrs ==
    /\ mp.pc = "removeAttrs"
    /\ ApplyDelete(DeleteAttrs(fs, mp))

NextDelete ==
    \/ DoNewTypedWriter(DeleteWriter)
    \/ DoWrite(DeleteWriter)
    \/ DoCloseBegin(DeleteWriter)
    \/ DoCloseEncodeAttrs(DeleteWriter)
    \/ DoCloseRename(DeleteWriter)
    \/ DoDeleteContent
    \/ DoDeleteAttrs

SpecDelete == InitDelete /\ [][NextDelete]_vars

(***************************************************************************)
(* Properties of Delete                                                    *)
(***************************************************************************)

\* Neither content nor side-record of the key at path p.
Absent(p) == ~Exists(fs, p) /\ ~Exists(fs, p \o attrsExt)

\* The key at path p holds what writer w wrote, with the side-record of w.
HoldsWriteOf(w, p) ==
    /\ wr[w].pc = "done" /\ wr[w].err = "nil" /\ wr[w].path = p
    /\ OpenRead(fs, p) = [err |-> "nil", data |-> wr[w].md5hash]
    /\ getAttrs(fs, p) = [err |-> "nil", xa |-> wr[w].attrs]
    /\ Exists(fs, p \o attrsExt)

\* C22: Delete removes the content and the side-record of a key together:
\* after a successful Delete the key is NotFound and no side-record for it
\* remains, and however a Delete and a write of the same key interleave, when
\* both have returned the key is either absent or holds the newly written
\* content together with the side-record of that write.
C22_DeleteRemovesBoth ==
    /\ mp.pc = "done" /\ mp.err = "nil"
    /\ wr[DeleteWriter].pc \in {"idle", "done"}
    /\ wr[DeleteWriter].pc = "done" => wr[DeleteWriter].key = mp.key
    => \/ Absent(mp.path) /\ ErrorCode(Attributes(fs, mp.key).err) = "NotFound"
       \/ HoldsWriteOf(DeleteWriter, mp.path)

(***************************************************************************)
(* Signed URLs (urlsigner.go): URLSignerHMAC                               *)
(*                                                                         *)
(* The query of a URL is the record of the first value of each of its      *)
(* parameters, as url.Values.Get returns them; expiry is a string.  Time   *)
(* is time.Now().Unix(), in seconds.                                       *)
(***************************************************************************)

\* hmac.New(sha256.New, secretKey) over msg, as an injective function of
\* the key and the message; base64.RawURLEncoding is injective too.
HMAC(secretKey, msg) == [hmac |-> <<secretKey, msg>>]

\* url.Values.Encode of the signed values: the parameters sorted by name,
\* each value escaped, which lets no value run into the next.
EncodeSigned(q) == <<"expiry", q.expiry, "method", q.method, "obj", q.obj>>

\* A MAC that leaves the method out of the message.
getMACWithoutMethod(secretKey, q) ==
    HMAC(secretKey, EncodeSigned([q EXCEPT !.method = <<>>]))

\* URLSignerHMAC.getMAC
getMAC(secretKey, q) == HMAC(secretKey, EncodeSigned(q))

\* URLSignerHMAC.URLFromKey at time now: the query of the signed URL.
URLFromKey(secretKey, now, key, opts) ==
    LET q == [obj |-> key, expiry |-> FormatInt(now + opts.Expiry), method |-> opts.Method]
    IN  [obj |-> q.obj, expiry |-> q.expiry, method |-> q.method,
         signature |-> getMAC(secretKey, q)]

\* URLSignerHMAC.checkMAC
checkMAC(secretKey, q) == q.signature = getMAC(secretKey, q)

\* URLSignerHMAC.KeyFromURL at time now
KeyFromURL(secretKey, now, q) ==
    IF ParseInt(q.expiry).err # "nil" \/ now > ParseInt(q.expiry).n
    THEN [err |-> "cannot be retrieved", key |-> <<>>]
    ELSE IF ~checkMAC(secretKey, q) THEN [err |-> "cannot be retrieved", key |-> <<>>]
    ELSE [err |-> "nil", key |-> q.obj]

(***************************************************************************)
(* The signer specification: a URL is signed, time passes, and the URL's   *)
(* query is changed by someone who does not have the secret, or is signed  *)
(* anew by someone who has another secret.                                 *)
(***************************************************************************)

\* Bounds of the signer specification.
MaxTime == 4
MaxExpiry == 2

SignerSecret == <<1>>

OtherSecret == <<2>>

Methods == {<<"G", "E", "T">>, <<"P", "U", "T">>}

Times == 0..MaxTime

\* The strings someone can put for expiry: the numbers as FormatInt writes
\* them, the same with a leading zero, and a string that is no number.
ExpiryStrings ==
    { FormatInt(n) : n \in 0..(MaxTime + MaxExpiry) }
    \cup { <<"0">> \o FormatInt(n) : n \in 1..(MaxTime + MaxExpiry) }
    \cup { <<"x">>, <<>> }

InitSigner ==
    /\ fs = EmptyDir
    /\ wr = [w \in Writers |-> NoWriter]
    /\ rd = [r \in Readers |-> NoReader]
    /\ it = NoIter
    /\ fw = NoFacadeWriter
    /\ ioFaults = FALSE
    /\ \E now \in {0, 1} : mp = [pc |-> "start", now |-> now]

Signed(surl, exp) ==
    mp' = [pc |-> "signed", now |-> mp.now, surl |-> surl, orig |-> surl, exp |-> exp]

DoURLFromKey ==
    /\ mp.pc = "start"
    /\ \E key \in Keys, expiry \in 1..MaxExpiry, method \in Methods :
          Signed(URLFromKey(SignerSecret, mp.now, key, [Expiry |-> expiry, Method |-> method]),
                 mp.now + expiry)
    /\ UNCHANGED <<fs, wr, rd, it, fw, ioFaults>>

\* A second passes.
DoTick ==
    /\ mp.pc # "start"
    /\ mp.now < MaxTime
    /\ mp' = [mp EXCEPT !.now = @ + 1]
    /\ UNCHANGED <<fs, wr, rd, it, fw, ioFaults>>

\* Someone replaces obj, expiry or method and keeps the signature.
DoTamper ==
    /\ mp.pc = "signed"
    /\ \/ \E key \in Keys : mp' = [mp EXCEPT !.pc = "changed", !.surl.obj = key]
       \/ \E e \in ExpiryStrings : mp' = [mp EXCEPT !.pc = "changed", !.surl.expiry = e]
       \/ \E m \in Methods : mp' = [mp EXCEPT !.pc = "changed", !.surl.method = m]
    /\ UNCHANGED <<fs, wr, rd, it, fw, ioFaults>>

\* Someone changes the URL and signs it with a secret of their own.
DoForge ==
    /\ mp.pc = "signed"
    /\ \E e \in ExpiryStrings :
          mp' = [mp EXCEPT !.pc = "changed", !.surl.expiry = e,
                           !.surl.signature = getMAC(OtherSecret, [mp.surl EXCEPT !.expiry = e])]
    /\ UNCHANGED <<fs, wr, rd, it, fw, ioFaults>>

NextSigner == DoURLFromKey \/ DoTick \/ DoTamper \/ DoForge

SpecSigner == InitSigner /\ [][NextSigner]_vars

(***************************************************************************)
(* Properties of signed URLs                                               *)
(***************************************************************************)

SameValues(q1, q2) == q1.obj = q2.obj /\ q1.expiry = q2.expiry /\ q1.method = q2.method

Accepted == KeyFromURL(SignerSecret, mp.now, mp.surl).err = "nil"

\* C29: KeyFromURL returns the object key if and only if the signature of
\* the URL is the HMAC, under the signer's secret, of the URL's obj, expiry
\* and method and the time is not after expiry; a URL made by URLFromKey is
\* accepted at every time up to and including its expiry and rejected
\* afterwards, and a URL whose obj, expiry or method was changed without
\* signing it again is rejected.
C29_SignedURLVerified ==
    mp.pc # "start" =>
       /\ ParseInt(mp.surl.expiry).err = "nil" =>
             (Accepted <=> /\ mp.surl.signature = HMAC(SignerSecret, EncodeSigned(mp.surl))
                           /\ mp.now <= ParseInt(mp.surl.expiry).n)
       /\ Accepted => KeyFromURL(SignerSecret, mp.now, mp.surl).key = mp.surl.obj
       /\ mp.surl = mp.orig => (Accepted <=> mp.now <= mp.exp)
       /\ ~SameValues(mp.surl, mp.orig) /\ mp.surl.signature = mp.orig.signature => ~Accepted

\* At the second of its expiry the URL made by URLFromKey is accepted, and
\* the same URL with its expiry changed to the next second, signature kept,
\* is rejected.
C29_Witness ==
    /\ mp.pc = "changed"
    /\ mp.now = mp.exp
    /\ KeyFromURL(SignerSecret, mp.now, mp.orig) = [err |-> "nil", key |-> mp.orig.obj]
    /\ mp.surl = [mp.orig EXCEPT !.expiry = FormatInt(mp.exp + 1)]
    /\ ~Accepted

(***************************************************************************)
(* The facade Bucket (blob.Bucket)                                         *)
(*                                                                         *)
(* Every operator takes `closed`, the Bucket's flag, and returns the error *)
(* (a code of verr, "errClosed" for the error of a closed Bucket, or       *)
(* "nil"), the directory after the call, and `called`: whether the driver  *)
(* was invoked.  A Go map is [nil, kv]: nil or not, and its entries.       *)
(***************************************************************************)

\* Stands for a byte that makes a string invalid UTF-8.
InvalidByte == "xFF"

\* utf8.ValidString
ValidString(s) == \A i \in 1..Len(s) : s[i] # InvalidByte

Lower(c) == IF c = "F" THEN "f" ELSE IF c = "O" THEN "o" ELSE c

\* strings.ToLower
ToLower(s) == [i \in 1..Len(s) |-> Lower(s[i])]

NilMap == [nil |-> TRUE, kv |-> <<>>]

MakeMap(kv) == [nil |-> FALSE, kv |-> kv]

\* len(m)
MapLen(m) == Cardinality(DOMAIN m.kv)

\* An error value is the chain of its layers, outermost first: a layer is a
\* *verr.Error with its code or another error with its name.  nil is the
\* empty chain.
NoError == <<>>

\* The error value a driver returns for the error named name.
ErrorOf(name) == IF name = "nil" THEN NoError ELSE <<[verr |-> FALSE, what |-> name]>>

\* verr.New(c, err, ...)
New(c, err) == <<[verr |-> TRUE, what |-> c]>> \o err

\* xerrors.Is(err, target) for a target that is no *verr.Error
Is(err, name) == \E i \in DOMAIN err : ~err[i].verr /\ err[i].what = name

\* verr.DoNotWrap
DoNotWrap(err) == Is(err, "EOF") \/ Is(err, "canceled") \/ Is(err, "DeadlineExceeded")

\* bucket.ErrorCode of an error value: os.IsNotExist looks at the error
\* itself, not at what it wraps.
ErrorCodeOf(err) ==
    IF err # NoError /\ ~err[1].verr THEN ErrorCode(err[1].what) ELSE "Unknown"

\* verr.Code of an error value
CodeOf(err) ==
    IF err = NoError THEN "OK"
    ELSE IF \E i \in DOMAIN err : err[i].verr
         THEN err[CHOOSE i \in DOMAIN err : err[i].verr /\ \A j \in 1..(i - 1) : ~err[j].verr].what
    ELSE IF Is(err, "canceled") \/ Is(err, "DeadlineExceeded") THEN "Aborted"
    ELSE "Unknown"

\* A wrapError that wraps whatever is not nil.
wrapErrorValueAlways(err) ==
    IF err = NoError THEN NoError ELSE New(ErrorCodeOf(err), err)

\* wrapError(b, err), on error values
wrapErrorValue(err) ==
    IF err = NoError THEN NoError
    ELSE IF DoNotWrap(err) THEN err
    ELSE New(ErrorCodeOf(err), err)

\* verr.Code of an error the facade returns, the error given as below.
Code(err) ==
    IF err = "errClosed" THEN "FailedPrecondition"
    ELSE IF err \in {"canceled", "DeadlineExceeded"} THEN "Aborted"
    ELSE IF err = "EOF" THEN "Unknown"
    ELSE err

\* wrapError of the driver error named err, as the operators below give
\* it: the code of a wrapped error, the name of one passed through.
wrapError(err) ==
    IF wrapErrorValue(ErrorOf(err)) = NoError THEN "nil"
    ELSE wrapErrorValue(ErrorOf(err))[1].what

\* A return before the driver is invoked.
Rejected(dir, err) == [err |-> err, fs |-> dir, called |-> FALSE]

\* The keys of a map in the orders a range statement can visit them.
Orders(kv) ==
    { o \in [1..Cardinality(DOMAIN kv) -> DOMAIN kv] :
         \A i, j \in DOMAIN o : i # j => o[i] # o[j] }

\* Bucket.Attributes, the metadata it returns: nil unless the driver has
\* some, else the entries under their lower-cased keys.  (Two keys of the
\* driver that differ in case only do not come from this facade.)
LowerCased(kv) ==
    IF Cardinality(DOMAIN kv) = 0 THEN NilMap
    ELSE MakeMap([lk \in { ToLower(k) : k \in DOMAIN kv } |->
                     kv[CHOOSE k \in DOMAIN kv : ToLower(k) = lk]])

\* Bucket.Attributes(ctx, key)
BucketAttributes(closed, dir, key) ==
    IF ~ValidString(key) THEN Rejected(dir, "InvalidArgument")
    ELSE IF closed THEN Rejected(dir, "errClosed")
    ELSE IF Attributes(dir, key).err # "nil"
         THEN [err |-> wrapError(Attributes(dir, key).err), fs |-> dir, called |-> TRUE]
         ELSE [err |-> "nil", fs |-> dir, called |-> TRUE,
               attrs |-> [Attributes(dir, key).attrs EXCEPT !.Metadata = LowerCased(@)]]

\* Bucket.Exists(ctx, key)
BucketExists(closed, dir, key) ==
    LET a == BucketAttributes(closed, dir, key) IN
    IF a.err = "nil" THEN [err |-> "nil", fs |-> dir, called |-> a.called, exists |-> TRUE]
    ELSE IF Code(a.err) = "NotFound"
         THEN [err |-> "nil", fs |-> dir, called |-> a.called, exists |-> FALSE]
         ELSE [err |-> a.err, fs |-> dir, called |-> a.called, exists |-> FALSE]

\* Bucket.newRangeReader, and the bytes the caller of Reader.Read gets.
BucketNewRangeReader(closed, dir, key, offset, length) ==
    IF closed THEN Rejected(dir, "errClosed")
    ELSE IF offset < 0 THEN Rejected(dir, "InvalidArgument")
    ELSE IF ~ValidString(key) THEN Rejected(dir, "InvalidArgument")
    ELSE LET r == NewRangeReader(dir, key, offset, length) IN
         [err |-> wrapError(r.err), fs |-> dir, called |-> TRUE,
          readErr |-> wrapError(r.readErr), data |-> r.data, Size |-> r.Size]

\* Bucket.NewReader(ctx, key, opts)
BucketNewReader(closed, dir, key) == BucketNewRangeReader(closed, dir, key, 0, -1)

\* Bucket.ReadAll(ctx, key)
BucketReadAll(closed, dir, key) ==
    IF closed THEN Rejected(dir, "errClosed") ELSE BucketNewReader(closed, dir, key)

\* Bucket.Copy(ctx, dstKey, srcKey, opts)
BucketCopy(closed, dir, dstKey, srcKey, oks) ==
    IF ~ValidString(srcKey) \/ ~ValidString(dstKey) THEN Rejected(dir, "InvalidArgument")
    ELSE IF closed THEN Rejected(dir, "errClosed")
    ELSE [err |-> wrapError(Copy(dir, CopyID, dstKey, srcKey, oks).err),
          fs |-> Copy(dir, CopyID, dstKey, srcKey, oks).fs, called |-> TRUE]

\* A Delete that does not look at the closed flag.
BucketDeleteWhenClosed(closed, dir, key) ==
    IF ~ValidString(key) THEN Rejected(dir, "InvalidArgument")
    ELSE [err |-> wrapError(Delete(dir, key).err), fs |-> Delete(dir, key).fs, called |-> TRUE]

\* Bucket.Delete(ctx, key)
BucketDelete(closed, dir, key) ==
    IF ~ValidString(key) THEN Rejected(dir, "InvalidArgument")
    ELSE IF closed THEN Rejected(dir, "errClosed")
    ELSE [err |-> wrapError(Delete(dir, key).err), fs |-> Delete(dir, key).fs, called |-> TRUE]

\* Options.URLSigner left nil.
NoURLSigner == <<>>

\* bucket.SignedURL of the driver: signer is the secret of a URLSignerHMAC,
\* or NoURLSigner.
SignedURL(signer, now, key, opts) ==
    IF signer = NoURLSigner THEN [err |-> "no URLSigner", surl |-> <<>>]
    ELSE [err |-> "nil", surl |-> URLFromKey(signer, now, key, opts)]

\* DefaultSignedURLExpiry, in seconds
DefaultSignedURLExpiry == 3600

\* Bucket.SignedURL(ctx, key, opts); expiry 0 is the option left unset.
BucketSignedURL(closed, dir, signer, now, key, expiry) ==
    IF ~ValidString(key) THEN Rejected(dir, "InvalidArgument")
    ELSE IF expiry < 0 THEN Rejected(dir, "InvalidArgument")
    ELSE IF closed THEN Rejected(dir, "errClosed")
    ELSE LET u == SignedURL(signer, now, key,
                            [Expiry |-> IF expiry = 0 THEN DefaultSignedURLExpiry ELSE expiry,
                             Method |-> <<>>])
         IN  [err |-> wrapError(u.err), fs |-> dir, called |-> TRUE, surl |-> u.surl]

\* Bucket.Close(): the flag afterwards, and the error.
BucketClose(closed) == [closed |-> TRUE, err |-> IF closed THEN "errClosed" ELSE "nil"]

\* The WriterOptions of the facade with nothing set.
NoWriterOptions ==
    [CacheControl |-> "", ContentDisposition |-> "", ContentEncoding |-> "",
     ContentLanguage |-> "", ContentType |-> "", ContentMD5 |-> NoMD5, Metadata |-> NilMap]

InvalidMetadata == [err |-> "InvalidArgument", md |-> <<>>]

\* Bucket.NewWriter, its loop over opts.Metadata, visiting the keys in the
\* order `order`; md is the map built so far.
RECURSIVE LowerMetadata(_, _, _)
LowerMetadata(kv, order, md) ==
    IF order = <<>> THEN [err |-> "nil", md |-> md]
    ELSE IF Head(order) = <<>> THEN InvalidMetadata
    ELSE IF ~ValidString(Head(order)) THEN InvalidMetadata
    ELSE IF ~ValidString(kv[Head(order)]) THEN InvalidMetadata
    ELSE IF ToLower(Head(order)) \in DOMAIN md THEN InvalidMetadata
    ELSE LowerMetadata(kv, Tail(order), (ToLower(Head(order)) :> kv[Head(order)]) @@ md)

\* Bucket.NewWriter, the options it hands to the driver.
DriverOptions(opts, md) ==
    [CacheControl |-> opts.CacheControl, ContentDisposition |-> opts.ContentDisposition,
     ContentEncoding |-> opts.ContentEncoding, ContentLanguage |-> opts.ContentLanguage,
     Metadata |-> md]

NewWriterFailed(dir, err) ==
    [fs |-> dir, f |-> [FacadeWriter0 EXCEPT !.pc = "failed", !.err = err]]

\* Bucket.NewWriter after the metadata loop, which gave lowered.
NewWriterChecked(closed, dir, key, opts, lowered) ==
    IF lowered.err # "nil" THEN NewWriterFailed(dir, lowered.err)
    ELSE IF closed THEN NewWriterFailed(dir, "errClosed")
    ELSE FacadeNewWriterWith(dir, key, opts.ContentType, opts.ContentMD5,
                             DriverOptions(opts, lowered.md))

\* A NewWriter that hands the metadata to the driver as the caller gave it.
NewWriterAsGiven(closed, dir, key, opts, order) ==
    IF ~ValidString(key) THEN NewWriterFailed(dir, "InvalidArgument")
    ELSE NewWriterChecked(closed, dir, key, opts, [err |-> "nil", md |-> opts.Metadata.kv])

\* Bucket.NewWriter(ctx, key, opts); the range over opts.Metadata visits the
\* keys in the order `order`.
NewWriter(closed, dir, key, opts, order) ==
    IF ~ValidString(key) THEN NewWriterFailed(dir, "InvalidArgument")
    ELSE NewWriterChecked(closed, dir, key, opts,
                          IF MapLen(opts.Metadata) > 0
                          THEN LowerMetadata(opts.Metadata.kv, order, <<>>)
                          ELSE [err |-> "nil", md |-> <<>>])

\* Bucket.WriteAll after Writer.Write: Close, and the error of the Write if
\* it had one.
WriteAllWritten(s) ==
    IF s.f.err # "nil"
    THEN [fs |-> WriterDotClose(s.fs, s.f).fs, err |-> s.f.err]
    ELSE [fs |-> WriterDotClose(s.fs, s.f).fs, err |-> WriterDotClose(s.fs, s.f).f.err]

WriteAllOpened(s, p) ==
    IF s.f.pc = "failed" THEN [fs |-> s.fs, err |-> s.f.err]
    ELSE WriteAllWritten(WriterDotWrite(s.fs, s.f, p))

\* Bucket.WriteAll(ctx, key, p, opts)
BucketWriteAll(closed, dir, key, p, opts, order) ==
    WriteAllOpened(NewWriter(closed, dir, key,
                             IF opts.ContentMD5 = NoMD5 THEN [opts EXCEPT !.ContentMD5 = MD5(p)]
                             ELSE opts,
                             order), p)

\* Bucket.List(opts): a ListIterator that has no page yet.
BucketList(prefix, delimiter) ==
    [opts |-> ListOptions(prefix, delimiter, 0, <<>>), loaded |-> FALSE,
     page |-> [Objects |-> <<>>, NextPageToken |-> <<>>], nextIdx |-> 0]

NoObject == [Key |-> <<>>]

\* ListIterator.Next(ctx)
RECURSIVE IterNext(_, _, _)
IterNext(closed, dir, i) ==
    IF i.loaded /\ i.nextIdx < Len(i.page.Objects)
    THEN [err |-> "nil", obj |-> [Key |-> i.page.Objects[i.nextIdx + 1].Key],
          iter |-> [i EXCEPT !.nextIdx = @ + 1], called |-> FALSE]
    ELSE IF i.loaded /\ i.page.NextPageToken = <<>>
    THEN [err |-> "EOF", obj |-> NoObject, iter |-> i, called |-> FALSE]
    ELSE IF closed
    THEN [err |-> "errClosed", obj |-> NoObject,
          iter |-> [i EXCEPT !.opts.PageToken = IF i.loaded THEN i.page.NextPageToken ELSE @],
          called |-> FALSE]
    ELSE [IterNext(closed, dir,
                   [opts |-> [i.opts EXCEPT !.PageToken =
                                 IF i.loaded THEN i.page.NextPageToken ELSE @],
                    loaded |-> TRUE,
                    page |-> ListPaged(dir, [i.opts EXCEPT !.PageToken =
                                 IF i.loaded THEN i.page.NextPageToken ELSE @]),
                    nextIdx |-> 0])
          EXCEPT !.called = TRUE]

(***************************************************************************)
(* The facade specification: one Bucket over the directory.  Callers write *)
(* whole objects, copy, delete, iterate over a listing, and close the      *)
(* bucket; every call runs whether or not the bucket has been closed.      *)
(* mp holds the Bucket's closed flag and the caller's ListIterator.        *)
(***************************************************************************)

BucketKeys == {KeyA, KeyB}

BucketPayloads == {<<>>, Payload(1)}

MetadataOptions == [NoWriterOptions EXCEPT !.Metadata = MakeMap(<<"F">> :> <<"a">>)]

BucketWriterOptions == {NoWriterOptions, MetadataOptions}

\* The order in which the keys of the metadata of the options are visited.
OrdersOf(opts) == Orders(opts.Metadata.kv)

NoIterator == [BucketList(<<>>, <<>>) EXCEPT !.nextIdx = -1]

InitBucket ==
    /\ fs = EmptyDir
    /\ wr = [w \in Writers |-> NoWriter]
    /\ rd = [r \in Readers |-> NoReader]
    /\ it = NoIter
    /\ fw = NoFacadeWriter
    /\ ioFaults = FALSE
    /\ mp = [pc |-> "bucket", closed |-> FALSE, iter |-> NoIterator]

DoBucketWriteAll ==
    /\ \E key \in BucketKeys, p \in BucketPayloads, opts \in BucketWriterOptions :
          \E order \in OrdersOf(opts) :
             fs' = BucketWriteAll(mp.closed, fs, key, p, opts, order).fs
    /\ UNCHANGED <<wr, rd, it, fw, ioFaults, mp>>

DoBucketCopy ==
    /\ \E dst \in BucketKeys, src \in BucketKeys, oks \in CloseOutcomes :
          fs' = BucketCopy(mp.closed, fs, dst, src, oks).fs
    /\ UNCHANGED <<wr, rd, it, fw, ioFaults, mp>>

DoBucketDelete ==
    /\ \E key \in BucketKeys : fs' = BucketDelete(mp.closed, fs, key).fs
    /\ UNCHANGED <<wr, rd, it, fw, ioFaults, mp>>

DoBucketList ==
    /\ mp.iter = NoIterator
    /\ mp' = [mp EXCEPT !.iter = BucketList(<<>>, <<>>)]
    /\ UNCHANGED <<fs, wr, rd, it, fw, ioFaults>>

DoBucketNext ==
    /\ mp.iter # NoIterator
    /\ mp' = [mp EXCEPT !.iter = IterNext(mp.closed, fs, mp.iter).iter]
    /\ UNCHANGED <<fs, wr, rd, it, fw, ioFaults>>

DoBucketClose ==
    /\ mp' = [mp EXCEPT !.closed = BucketClose(mp.closed).closed]
    /\ UNCHANGED <<fs, wr, rd, it, fw, ioFaults>>

NextBucket ==
    \/ DoBucketWriteAll
    \/ DoBucketCopy
    \/ DoBucketDelete
    \/ DoBucketList
    \/ DoBucketNext
    \/ DoBucketClose

SpecBucket == InitBucket /\ [][NextBucket]_vars

(***************************************************************************)
(* Properties of the facade Bucket                                         *)
(***************************************************************************)

\* The keys that hold an object.
Stored(dir) == { k \in BucketKeys : ObjectOf(dir, k).ok }

\* The number of bytes a read of (offset, length) is to give, of n bytes.
RangeLen(n, offset, length) ==
    IF length < 0 THEN n - offset ELSE Minimum(length, n - offset)

\* A range that starts inside the content, or at its end, gives the bytes
\* from offset on, and the Size of the whole content.
RangeWithin(k, data) ==
    \A offset \in 0..Len(data), length \in -2..(Len(data) + 1) :
        /\ BucketNewRangeReader(FALSE, fs, k, offset, length).err = "nil"
        /\ BucketNewRangeReader(FALSE, fs, k, offset, length).readErr = "nil"
        /\ BucketNewRangeReader(FALSE, fs, k, offset, length).Size = Len(data)
        /\ BucketNewRangeReader(FALSE, fs, k, offset, length).data =
              [i \in 1..RangeLen(Len(data), offset, length) |-> data[offset + i]]

\* A range that starts before the content or after its end fails.
RangeOutside(k, data) ==
    \A length \in -2..(Len(data) + 1) :
        /\ BucketNewRangeReader(FALSE, fs, k, -1, length).err = "InvalidArgument"
        /\ \/ BucketNewRangeReader(FALSE, fs, k, Len(data) + 1, length).err # "nil"
           \/ BucketNewRangeReader(FALSE, fs, k, Len(data) + 1, length).readErr # "nil"

\* C23: of an object of N bytes, a range reader of (offset, length) reads
\* the bytes from offset to the end when length is negative, min(length,
\* N - offset) bytes from offset when it is not, so none for length 0; its
\* Size is N; a negative offset fails with InvalidArgument and an offset
\* greater than N fails.
C23_RangeSemantics ==
    \A k \in Stored(fs) :
        RangeWithin(k, ObjectOf(fs, k).data) /\ RangeOutside(k, ObjectOf(fs, k).data)

(***************************************************************************)
(* Properties of Writer.Close with a ContentMD5                            *)
(***************************************************************************)

\* The facade Writer has a ContentMD5 and is being closed in this step.
ClosingWithMD5 == fw.pc = "open" /\ fw.contentMD5 # NoMD5 /\ fw'.pc = "closed"

\* All the bytes the caller has written have the ContentMD5 of the caller.
DigestMatches == MD5(Stream(1, fw.sent)) = fw.contentMD5

\* The step leaves the object at the key, or its absence, as it was, and no
\* temporary file behind.
WriteAborted ==
    /\ ObjectOf(fs', fw.key) = ObjectOf(fs, fw.key)
    /\ \A p \in DOMAIN fs' : IsFile(fs', p) => p \in DOMAIN fs /\ fs'[p] = fs[p]

\* C24: a Writer with a ContentMD5 closes without error only if the bytes
\* written have that MD5; when they do not, Close returns
\* FailedPrecondition and the key keeps the object it had, or stays absent,
\* whether the driver writer was open or not at the Close.
C24_ContentMD5Verified ==
    [][ClosingWithMD5 =>
          /\ fw'.err = "nil" => DigestMatches
          /\ ~DigestMatches => fw'.err = "FailedPrecondition" /\ WriteAborted]_vars

C24_Witness ==
    /\ fw.pc = "closed"
    /\ fw.contentMD5 = MD5(<<1>>)
    /\ fw.sent > 1
    /\ fw.w.pc # "idle"
    /\ fw.err = "FailedPrecondition"
    /\ ObjectOf(fs, fw.key).ok
    /\ ObjectOf(fs, fw.key).data = Payload(0)

(***************************************************************************)
(* The metadata specification: callers write whole objects with metadata   *)
(* of every shape, valid or not, through the facade, and close the bucket. *)
(***************************************************************************)

MaxMetaKeys == 2

MetaKeys == {<<"f">>, <<"F">>, <<"o">>, <<>>, <<InvalidByte>>}

MetaValues == {<<"a">>, <<"F">>, <<InvalidByte>>}

\* The maps of at most MaxMetaKeys entries.
MetaMaps ==
    UNION { [ks -> MetaValues] : ks \in { s \in SUBSET MetaKeys : Cardinality(s) <= MaxMetaKeys } }

\* WriterOptions.Metadata: nil, or one of the maps.
MetaOptions ==
    {NoWriterOptions} \cup { [NoWriterOptions EXCEPT !.Metadata = MakeMap(kv)] : kv \in MetaMaps }

InitMetadata ==
    /\ fs = EmptyDir
    /\ wr = [w \in Writers |-> NoWriter]
    /\ rd = [r \in Readers |-> NoReader]
    /\ it = NoIter
    /\ fw = NoFacadeWriter
    /\ ioFaults = FALSE
    /\ mp = [pc |-> "metadata", closed |-> FALSE]

DoMetadataWriteAll ==
    /\ \E key \in BucketKeys, opts \in MetaOptions :
          \E order \in OrdersOf(opts) :
             fs' = BucketWriteAll(mp.closed, fs, key, Payload(1), opts, order).fs
    /\ UNCHANGED <<wr, rd, it, fw, ioFaults, mp>>

DoMetadataClose ==
    /\ mp' = [mp EXCEPT !.closed = BucketClose(mp.closed).closed]
    /\ UNCHANGED <<fs, wr, rd, it, fw, ioFaults>>

NextMetadata == DoMetadataWriteAll \/ DoMetadataClose

SpecMetadata == InitMetadata /\ [][NextMetadata]_vars

(***************************************************************************)
(* Properties of the metadata                                              *)
(***************************************************************************)

\* A key is empty, a key or a value is not valid UTF-8, or two keys are
\* equal ignoring case.
BadMetadata(kv) ==
    \/ \E k \in DOMAIN kv : k = <<>> \/ ~ValidString(k) \/ ~ValidString(kv[k])
    \/ \E k1, k2 \in DOMAIN kv : k1 # k2 /\ ToLower(k1) = ToLower(k2)

\* NewWriter fails with InvalidArgument; no driver writer, no file changed.
RefusedMetadata(s) ==
    /\ s.f.pc = "failed"
    /\ s.f.err = "InvalidArgument"
    /\ s.f.w = NoWriter
    /\ s.fs = fs

\* got is the metadata kv under lower-cased keys: nil when kv is empty.
IsLowered(got, kv) ==
    IF DOMAIN kv = {} THEN got = NilMap
    ELSE /\ ~got.nil
         /\ DOMAIN got.kv = { ToLower(k) : k \in DOMAIN kv }
         /\ \A k \in DOMAIN kv : got.kv[ToLower(k)] = kv[k]

\* The object written with opts is read back with its metadata lowered.
ReadBackLowered(key, opts, order) ==
    /\ BucketWriteAll(FALSE, fs, key, Payload(1), opts, order).err = "nil"
    /\ BucketAttributes(FALSE, BucketWriteAll(FALSE, fs, key, Payload(1), opts, order).fs,
                        key).err = "nil"
    /\ IsLowered(BucketAttributes(FALSE,
                                  BucketWriteAll(FALSE, fs, key, Payload(1), opts, order).fs,
                                  key).attrs.Metadata,
                 opts.Metadata.kv)

\* C25: NewWriter with metadata that has an empty key, a key or a value
\* that is not valid UTF-8, or two keys equal ignoring case fails with
\* InvalidArgument before the driver is called and before a byte is
\* stored, on an open and on a closed bucket; with other metadata the
\* object written is read back with the metadata under lower-cased keys
\* and unchanged values, and with nil metadata for an empty map.
C25_MetadataNormalized ==
    \A key \in BucketKeys, opts \in MetaOptions :
        \A order \in OrdersOf(opts) :
            IF BadMetadata(opts.Metadata.kv)
            THEN /\ RefusedMetadata(NewWriter(mp.closed, fs, key, opts, order))
                 /\ BucketWriteAll(mp.closed, fs, key, Payload(1), opts, order).fs = fs
            ELSE ReadBackLowered(key, opts, order)

\* An object written with the keys "F" and "o" is stored, and another write
\* to it with the keys "F" and "f" would be refused.
C25_Witness ==
    /\ ObjectOf(fs, KeyA).ok
    /\ DOMAIN ObjectOf(fs, KeyA).attrs.xa.Metadata = {<<"f">>, <<"o">>}
    /\ ObjectOf(fs, KeyA).attrs.xa.Metadata[<<"f">>] = <<"F">>
    /\ BucketAttributes(FALSE, fs, KeyA).attrs.Metadata.kv[<<"o">>] = <<"a">>
    /\ NewWriter(FALSE, fs, KeyA,
                 [NoWriterOptions EXCEPT
                     !.Metadata = MakeMap((<<"F">> :> <<"a">>) @@ (<<"f">> :> <<"a">>))],
                 <<<<"F">>, <<"f">>>>).f.err = "InvalidArgument"

(***************************************************************************)
(* Properties of a closed Bucket                                           *)
(***************************************************************************)

\* A key that is not valid UTF-8.
InvalidKey == <<"a", InvalidByte>>

\* Metadata with an empty key.
EmptyKeyOptions == [NoWriterOptions EXCEPT !.Metadata = MakeMap(<<>> :> <<"a">>)]

RangeOffsets == {-1, 0, 1}

RangeLengths == {-1, 0, 1}

\* What NewWriter returns, as the result of a call: the driver is invoked
\* when a driver writer comes with the Writer.
NewWriterResult(s) == [err |-> s.f.err, fs |-> s.fs, called |-> s.f.w # NoWriter]

\* What WriteAll returns; it goes on to Write and Close, which invoke the
\* driver, when NewWriter has given a Writer.
WriteAllResult(key, opts, order) ==
    [err |-> BucketWriteAll(mp.closed, fs, key, Payload(1), opts, order).err,
     fs |-> BucketWriteAll(mp.closed, fs, key, Payload(1), opts, order).fs,
     called |-> NewWriter(mp.closed, fs, key, opts, order).f.pc # "failed"]

\* The ListIterator has to load a page at its next Next.
MustLoad(i) ==
    /\ i # NoIterator
    /\ ~(i.loaded /\ i.nextIdx < Len(i.page.Objects))
    /\ ~(i.loaded /\ i.page.NextPageToken = <<>>)

NextResults ==
    IF MustLoad(mp.iter)
    THEN {[err |-> IterNext(mp.closed, fs, mp.iter).err, fs |-> fs,
           called |-> IterNext(mp.closed, fs, mp.iter).called]}
    ELSE {}

\* The results of the calls of the reading operations with keys of ks.
ReadResults(ks) ==
    { BucketAttributes(mp.closed, fs, k) : k \in ks }
        \cup { BucketExists(mp.closed, fs, k) : k \in ks }
        \cup { BucketNewReader(mp.closed, fs, k) : k \in ks }
        \cup { BucketReadAll(mp.closed, fs, k) : k \in ks }
        \cup { BucketNewRangeReader(mp.closed, fs, k, o, l) :
                  k \in ks, o \in RangeOffsets, l \in RangeLengths }
        \cup NextResults

\* The results of the calls of the other operations with keys of ks,
\* WriterOptions of os and an Expiry of es.
WriteResults(ks, os, es) ==
    UNION { { NewWriterResult(NewWriter(mp.closed, fs, k, o, order)) :
                 order \in OrdersOf(o) } : k \in ks, o \in os }
        \cup UNION { { WriteAllResult(k, o, order) : order \in OrdersOf(o) } :
                        k \in ks, o \in os }
        \cup { BucketCopy(mp.closed, fs, dst, src, AllWork) : dst \in ks, src \in ks }
        \cup { BucketDelete(mp.closed, fs, k) : k \in ks }
        \cup { BucketSignedURL(mp.closed, fs, signer, 0, k, e) :
                  signer \in {NoURLSigner, SignerSecret}, k \in ks, e \in es }

\* The calls whose arguments the facade accepts, and all the calls.
ValidCalls ==
    ReadResults(BucketKeys)
        \cup WriteResults(BucketKeys, {NoWriterOptions, MetadataOptions}, {0, 1})

AllCalls ==
    ReadResults(BucketKeys \cup {InvalidKey})
        \cup WriteResults(BucketKeys \cup {InvalidKey},
                          {NoWriterOptions, MetadataOptions, EmptyKeyOptions}, {-1, 0, 1})

\* The call failed before the driver was invoked.
NotInvoked(r) == r.err # "nil" /\ ~r.called /\ r.fs = fs

\* C26 as stated: on a closed Bucket every operation, whatever its
\* arguments, fails with the FailedPrecondition error "Bucket has been
\* closed" and does not invoke the driver.
C26_ClosedRejectsAll ==
    mp.closed =>
        \A r \in AllCalls :
            NotInvoked(r) /\ r.err = "errClosed" /\ Code(r.err) = "FailedPrecondition"

\* C26, amended: on a closed Bucket every operation fails and does not
\* invoke the driver; the error is "Bucket has been closed", with code
\* FailedPrecondition, when the facade accepts the arguments, and that or
\* InvalidArgument when it does not.
C26_ClosedRejectsValidCalls ==
    mp.closed =>
        /\ \A r \in ValidCalls :
              NotInvoked(r) /\ r.err = "errClosed" /\ Code(r.err) = "FailedPrecondition"
        /\ \A r \in AllCalls :
              NotInvoked(r) /\ r.err \in {"errClosed", "InvalidArgument"}

\* A closed Bucket over a stored object, with a ListIterator that has no
\* page yet: Delete of the object is refused as closed, Attributes of a
\* key that is not UTF-8 as an invalid argument.
C26_Witness ==
    /\ mp.closed
    /\ ObjectOf(fs, KeyA).ok
    /\ MustLoad(mp.iter)
    /\ IterNext(mp.closed, fs, mp.iter).err = "errClosed"
    /\ BucketDelete(mp.closed, fs, KeyA).err = "errClosed"
    /\ BucketDelete(mp.closed, fs, KeyA).fs = fs
    /\ BucketAttributes(mp.closed, fs, InvalidKey).err = "InvalidArgument"

(***************************************************************************)
(* Properties of SignedURL                                                 *)
(***************************************************************************)

\* C30: on an open Bucket over a directory opened without a URLSigner,
\* SignedURL of a valid key with a valid Expiry fails with an error whose
\* code is Unimplemented.
C30_UnsignedUnimplemented ==
    ~mp.closed =>
        \A k \in BucketKeys, e \in {0, 1} :
            /\ BucketSignedURL(mp.closed, fs, NoURLSigner, 0, k, e).err # "nil"
            /\ Code(BucketSignedURL(mp.closed, fs, NoURLSigner, 0, k, e).err) = "Unimplemented"

(***************************************************************************)
(* Properties of the driver operations on absent keys                      *)
(***************************************************************************)

\* The error is one that ErrorCode maps to NotFound, and no file changed.
NotFoundUnchanged(r) == r.err # "nil" /\ ErrorCode(r.err) = "NotFound" /\ r.fs = fs

ReadOnly(r) == [err |-> r.err, fs |-> fs]

\* Attributes, NewRangeReader and Delete of key k, and Copy from k, return
\* NotFound and change no file.
AbsentNotFound(k) ==
    /\ NotFoundUnchanged(ReadOnly(Attributes(fs, k)))
    /\ NotFoundUnchanged(ReadOnly(NewRangeReader(fs, k, 0, -1)))
    /\ NotFoundUnchanged(Delete(fs, k))
    /\ \A dst \in DriverKeys \ ReservedKeys :
          NotFoundUnchanged(Copy(fs, CopyID, dst, k, AllWork))

\* C27: Attributes, NewRangeReader, Delete and Copy from a key that is not
\* reserved and at which no object exists return an error whose code is
\* NotFound and leave the bucket unchanged.
C27_AbsentNotFound ==
    \A k \in DriverKeys \ ReservedKeys : ~ObjectOf(fs, k).ok => AbsentNotFound(k)

(***************************************************************************)
(* Properties of Copy                                                      *)
(***************************************************************************)

\* The attributes a copy is to carry over.
CopiedAttrs(o) ==
    [ContentType |-> o.attrs.xa.ContentType, CacheControl |-> o.attrs.xa.CacheControl,
     ContentDisposition |-> o.attrs.xa.ContentDisposition,
     ContentEncoding |-> o.attrs.xa.ContentEncoding,
     ContentLanguage |-> o.attrs.xa.ContentLanguage, Metadata |-> o.attrs.xa.Metadata]

\* After a Copy that gave r: without an error dst is an object with the
\* content and the attributes src had and src is as it was; with an error
\* dst is as it was.
CopiedOrUntouched(dst, src, r) ==
    IF r.err = "nil"
    THEN /\ ObjectOf(fs, src).ok
         /\ ObjectOf(r.fs, dst).ok
         /\ ObjectOf(r.fs, dst).attrs.err = "nil"
         /\ ObjectOf(r.fs, dst).data = ObjectOf(fs, src).data
         /\ CopiedAttrs(ObjectOf(r.fs, dst)) = CopiedAttrs(ObjectOf(fs, src))
         /\ ObjectOf(r.fs, src) = ObjectOf(fs, src)
    ELSE ObjectOf(r.fs, dst) = ObjectOf(fs, dst)

\* C28: a Copy that succeeds leaves at dst the content, content type,
\* cache-control, content-disposition, content-encoding, content-language
\* and metadata of src, in place of whatever dst held, and src unchanged;
\* a Copy that returns an error leaves dst unchanged.
C28_CopyReplacesOrKeeps ==
    \A dst \in DriverKeys, src \in DriverKeys, oks \in CloseOutcomes :
        CopiedOrUntouched(dst, src, Copy(fs, CopyID, dst, src, oks))

(***************************************************************************)
(* The error specification: the facade calls the driver, the driver        *)
(* returns error values, and the facade returns an error value to its      *)
(* caller.  mp holds the call: the method, the errors of the driver calls  *)
(* the method makes one after the other, and what the facade returned.     *)
(***************************************************************************)

\* An error that wraps io.EOF.
WrappedEOF == <<[verr |-> FALSE, what |-> "read"], [verr |-> FALSE, what |-> "EOF"]>>

DriverErrorNames ==
    {"nil", "EOF", "canceled", "DeadlineExceeded", "NotExist", "NotDir", "errAttrsExt", "IsDir"}

\* The error values a driver call returns.
DriverErrors == { ErrorOf(n) : n \in DriverErrorNames } \cup {WrappedEOF}

\* The methods of the facade that return the error of one driver call.
SingleCalls ==
    {"Reader.Read", "Reader.Close", "Writer.Write", "ListIterator.Next", "Attributes",
     "Exists", "NewRangeReader", "NewWriter", "Copy", "Delete", "SignedURL"}

\* Writer.write: the driver's Write.
WriterWriteError(d) == wrapErrorValue(d)

\* Writer.open: NewTypedWriter, then Writer.write.
WriterOpenError(dOpen, dWrite) ==
    IF dOpen # NoError THEN wrapErrorValue(dOpen) ELSE WriterWriteError(dWrite)

\* Writer.Close of a Writer that has no driver writer yet: Writer.open, whose
\* error is returned as it is, then the driver's Close.
WriterCloseError(dOpen, dWrite, dClose) ==
    IF WriterOpenError(dOpen, dWrite) # NoError THEN WriterOpenError(dOpen, dWrite)
    ELSE wrapErrorValue(dClose)

\* Bucket.Exists: the error of Bucket.Attributes unless its code is NotFound.
ExistsError(d) ==
    IF CodeOf(wrapErrorValue(d)) = "NotFound" THEN NoError ELSE wrapErrorValue(d)

\* What the facade returns from method op when the driver calls return ds.
FacadeError(op, ds) ==
    IF op = "Writer.Close" THEN WriterCloseError(ds[1], ds[2], ds[3])
    ELSE IF op = "Exists" THEN ExistsError(ds[1])
    ELSE wrapErrorValue(ds[1])

NoCall == [pc |-> "errors", st |-> "idle", op |-> "", ds |-> <<>>, ferr |-> NoError]

InitErrors ==
    /\ fs = EmptyDir
    /\ wr = [w \in Writers |-> NoWriter]
    /\ rd = [r \in Readers |-> NoReader]
    /\ it = NoIter
    /\ fw = NoFacadeWriter
    /\ ioFaults = FALSE
    /\ mp = NoCall

\* The facade calls the driver, which returns.
DoDriverReturn ==
    /\ mp.st = "idle"
    /\ \/ \E op \in SingleCalls, d \in DriverErrors :
             mp' = [mp EXCEPT !.st = "called", !.op = op, !.ds = <<d>>]
       \/ \E d1 \in DriverErrors, d2 \in DriverErrors, d3 \in DriverErrors :
             mp' = [mp EXCEPT !.st = "called", !.op = "Writer.Close", !.ds = <<d1, d2, d3>>]
    /\ UNCHANGED <<fs, wr, rd, it, fw, ioFaults>>

\* The facade returns to its caller.
DoFacadeReturn ==
    /\ mp.st = "called"
    /\ mp' = [mp EXCEPT !.st = "returned", !.ferr = FacadeError(mp.op, mp.ds)]
    /\ UNCHANGED <<fs, wr, rd, it, fw, ioFaults>>

NextErrors == DoDriverReturn \/ DoFacadeReturn

SpecErrors == InitErrors /\ [][NextErrors]_vars

(***************************************************************************)
(* Properties of the errors of the facade                                  *)
(***************************************************************************)

\* The error of the first driver call that failed, nil if none did.
RECURSIVE FirstError(_)
FirstError(ds) ==
    IF ds = <<>> THEN NoError
    ELSE IF Head(ds) # NoError THEN Head(ds)
    ELSE FirstError(Tail(ds))

\* The error is, or wraps, end-of-data or an error of the context.
Signal(d) ==
    \E i \in DOMAIN d : d[i].what \in {"EOF", "canceled", "DeadlineExceeded"}

\* The number of *verr.Error layers of an error value.
Wrappers(e) == Cardinality({ i \in DOMAIN e : e[i].verr })

\* f is what the facade is to return for the driver error d.
Conforms(d, f) ==
    IF d = NoError THEN f = NoError
    ELSE IF Signal(d) THEN f = d
    ELSE /\ Len(f) = Len(d) + 1
         /\ Tail(f) = d
         /\ Head(f).verr
         /\ Head(f).what = ErrorCodeOf(d)
         /\ Wrappers(f) = 1

\* C31: the facade returns nil for a nil driver error, returns io.EOF and
\* the errors of the context, and errors that wrap them, as the driver gave
\* them, and returns every other driver error wrapped in one *verr.Error
\* whose code is the driver's ErrorCode of it.  (Exists returns nil for a
\* NotFound error: that is its answer.)
C31_ErrorsWrappedOnce ==
    mp.st = "returned" =>
        \/ Conforms(FirstError(mp.ds), mp.ferr)
        \/ mp.op = "Exists" /\ ErrorCodeOf(FirstError(mp.ds)) = "NotFound" /\ mp.ferr = NoError

\* Writer.Close has returned the not-exist error of the NewTypedWriter that
\* its Writer.open made, wrapped once under the code NotFound.
C31_Witness ==
    /\ mp.st = "returned"
    /\ mp.op = "Writer.Close"
    /\ mp.ds[1] = ErrorOf("NotExist")
    /\ mp.ds[3] = ErrorOf("canceled")
    /\ mp.ferr = New("NotFound", ErrorOf("NotExist"))
    /\ CodeOf(mp.ferr) = "NotFound"

(***************************************************************************)
(* The specification of writers on keys of their own: every writer writes  *)
(* its payload to a key no other writer uses, the steps of the writers     *)
(* interleaved as in the concurrent specification.                         *)
(***************************************************************************)

\* The key of writer w: the first two share a directory.
OwnKey(w) == <<KeyAB, KeyAC, KeyB, KeyA>>[w]

DoNewTypedWriterOwnKey(w) ==
    /\ wr[w].pc = "idle"
    /\ \E ct \in ContentTypes : Apply(w, NewTypedWriter(fs, w, OwnKey(w), ct, NoOpts))
    /\ UNCHANGED <<rd, it, fw, ioFaults, mp>>

OwnKeyStep(w) ==
    \/ DoNewTypedWriterOwnKey(w)
    \/ DoWrite(w)
    \/ DoCloseBegin(w)
    \/ DoCloseEncodeAttrs(w)
    \/ DoCloseRename(w)

NextOwnKeys == \E w \in Writers : OwnKeyStep(w)

SpecOwnKeys == Init /\ [][NextOwnKeys]_vars

(***************************************************************************)
(* Properties of writers on keys of their own                              *)
(***************************************************************************)

\* Writer w has closed without an error.
ClosedWell(w) == wr[w].pc = "done" /\ wr[w].err = "nil"

\* A read of the whole of key gives data.
ReadsAs(key, data) ==
    /\ NewRangeReader(fs, key, 0, -1).err = "nil"
    /\ NewRangeReader(fs, key, 0, -1).readErr = "nil"
    /\ NewRangeReader(fs, key, 0, -1).data = data
    /\ NewRangeReader(fs, key, 0, -1).Size = Len(data)

\* C32: when writers of pairwise different keys have all closed without an
\* error, however their steps were interleaved, every key holds the bytes
\* of its writer, and reads of the keys, which change nothing and so may
\* run side by side, return those bytes.
C32_OwnKeysIndependent ==
    (\A w \in Writers : ClosedWell(w)) =>
        \A w \in Writers :
            /\ ObjectOf(fs, OwnKey(w)).ok
            /\ ObjectOf(fs, OwnKey(w)).data = Payload(w)
            /\ ReadsAs(OwnKey(w), Payload(w))

\* Both writers have closed well, on a directory that held an object at
\* one of the keys before.
C32_Witness ==
    /\ \A w \in Writers : ClosedWell(w) /\ wr[w].key = OwnKey(w)
    /\ ObjectOf(fs, KeyAB).data = Payload(1)
    /\ ObjectOf(fs, KeyAC).data = Payload(2)
    /\ ObjectOf(fs, KeyAB).attrs.xa.MD5 = MD5(Payload(1))

(***************************************************************************)
(* The specification of a Writer and Bucket.Close: one caller makes a      *)
(* Writer with Bucket.NewWriter, writes and closes it, while the Bucket is *)
(* closed at any moment.  mp holds the Bucket's closed flag: it is set     *)
(* when the facade has called the driver's Close.                          *)
(***************************************************************************)

InitLateWriter ==
    /\ fs \in InitDirs
    /\ wr = [w \in Writers |-> NoWriter]
    /\ rd = [r \in Readers |-> NoReader]
    /\ it = NoIter
    /\ fw = NoFacadeWriter
    /\ ioFaults = FALSE
    /\ mp = [pc |-> "late", closed |-> FALSE]

DoBucketNewWriter ==
    /\ fw.pc = "unused"
    /\ \E key \in Keys, ct \in FacadeContentTypes, md5 \in MD5Choices :
          ApplyFacade(NewWriter(mp.closed, fs, key,
                                [NoWriterOptions EXCEPT !.ContentType = ct, !.ContentMD5 = md5],
                                <<>>))

NextLateWriter == DoBucketNewWriter \/ DoFacadeWrite \/ DoFacadeClose \/ DoBucketClose

SpecLateWriter == InitLateWriter /\ [][NextLateWriter]_vars

(***************************************************************************)
(* Properties of the driver calls after Bucket.Close                       *)
(***************************************************************************)

\* The step gives the facade Writer its driver writer: Writer.open has
\* called the driver's NewTypedWriter.
OpensDriverWriter == fw.pc = "open" /\ fw.w.pc = "idle" /\ fw'.w.pc # "idle"

\* C33: once the facade has called the driver's Close it calls no method
\* of the driver Bucket but ErrorCode: NewWriter, WriteAll, Copy, Delete
\* and SignedURL do not invoke the driver, and no Write or Close of a
\* Writer made before calls the driver's NewTypedWriter.
C33_NoDriverCallAfterClose ==
    [][mp.closed =>
          /\ ~OpensDriverWriter
          /\ \A r \in WriteResults(Keys, {NoWriterOptions}, {0}) : ~r.called]_vars

(***************************************************************************)
(* The lock specification: callers of Bucket.ReadAll and one caller of     *)
(* Bucket.Close, cut at their acquisitions of Bucket.mu, a sync.RWMutex:   *)
(* RLock waits while a writer holds the lock or waits for it, Lock         *)
(* announces itself and then waits for the readers to leave.  mp holds the *)
(* mutex (readers, writer), the closed flag and the callers, each with the *)
(* key it reads and whether it was refused as closed.                      *)
(***************************************************************************)

NumCallers == 2

Callers == 1..NumCallers

NoReadAll == [pc |-> "idle", key |-> KeyA, err |-> "nil"]

InitLock ==
    /\ fs \in InitDirs
    /\ wr = [w \in Writers |-> NoWriter]
    /\ rd = [r \in Readers |-> NoReader]
    /\ it = NoIter
    /\ fw = NoFacadeWriter
    /\ ioFaults = FALSE
    /\ mp = [pc |-> "lock", readers |-> 0, writer |-> "none", closed |-> FALSE,
             ra |-> [c \in Callers |-> NoReadAll], close |-> "idle"]

\* sync.RWMutex.RLock can return.
CanRLock == mp.writer = "none"

\* Bucket.ReadAll: b.mu.RLock()
DoReadAllRLock(c) ==
    /\ mp.ra[c].pc = "idle"
    /\ CanRLock
    /\ \E key \in Keys :
          mp' = [mp EXCEPT !.readers = @ + 1, !.ra[c].pc = "locked", !.ra[c].key = key]
    /\ UNCHANGED <<fs, wr, rd, it, fw, ioFaults>>

\* Bucket.ReadAll: the test of b.closed, then the call of NewReader.
DoReadAllCheck(c) ==
    /\ mp.ra[c].pc = "locked"
    /\ mp' = IF mp.closed
             THEN [mp EXCEPT !.ra[c].pc = "return", !.ra[c].err = "errClosed"]
             ELSE [mp EXCEPT !.ra[c].pc = "NewReader"]
    /\ UNCHANGED <<fs, wr, rd, it, fw, ioFaults>>

\* Bucket.newRangeReader: b.mu.RLock(), with the lock of ReadAll still held.
DoNewReaderRLock(c) ==
    /\ mp.ra[c].pc = "NewReader"
    /\ CanRLock
    /\ mp' = [mp EXCEPT !.readers = @ + 1, !.ra[c].pc = "reading"]
    /\ UNCHANGED <<fs, wr, rd, it, fw, ioFaults>>

\* Bucket.newRangeReader to its return, with its deferred RUnlock, and
\* ioutil.ReadAll of the Reader.  The closed flag cannot have changed since
\* ReadAll tested it, for ReadAll still holds its read lock; what the driver
\* returns is BucketNewReader's and takes no part in the locking.
DoNewReaderReturn(c) ==
    /\ mp.ra[c].pc = "reading"
    /\ mp' = [mp EXCEPT !.readers = @ - 1, !.ra[c].pc = "return",
                        !.ra[c].err = IF mp.closed THEN "errClosed" ELSE "nil"]
    /\ UNCHANGED <<fs, wr, rd, it, fw, ioFaults>>

\* Bucket.ReadAll returns: its deferred RUnlock.
DoReadAllReturn(c) ==
    /\ mp.ra[c].pc = "return"
    /\ mp' = [mp EXCEPT !.readers = @ - 1, !.ra[c].pc = "done"]
    /\ UNCHANGED <<fs, wr, rd, it, fw, ioFaults>>

\* Bucket.Close: b.mu.Lock() announces the writer.
DoCloseLock ==
    /\ mp.close = "idle"
    /\ mp.writer = "none"
    /\ mp' = [mp EXCEPT !.writer = "waiting", !.close = "Lock"]
    /\ UNCHANGED <<fs, wr, rd, it, fw, ioFaults>>

\* Bucket.Close: b.mu.Lock() returns when the readers have left.
DoCloseLocked ==
    /\ mp.close = "Lock"
    /\ mp.readers = 0
    /\ mp' = [mp EXCEPT !.writer = "held", !.close = "locked"]
    /\ UNCHANGED <<fs, wr, rd, it, fw, ioFaults>>

\* Bucket.Close: b.closed = true, b.mu.Unlock(), and the driver's Close.
DoCloseUnlock ==
    /\ mp.close = "locked"
    /\ mp' = [mp EXCEPT !.writer = "none", !.closed = BucketClose(mp.closed).closed,
                        !.close = "done"]
    /\ UNCHANGED <<fs, wr, rd, it, fw, ioFaults>>

ReadAllStep(c) ==
    \/ DoReadAllRLock(c)
    \/ DoReadAllCheck(c)
    \/ DoNewReaderRLock(c)
    \/ DoNewReaderReturn(c)
    \/ DoReadAllReturn(c)

CloseStep == DoCloseLock \/ DoCloseLocked \/ DoCloseUnlock

NextLock == (\E c \in Callers : ReadAllStep(c)) \/ CloseStep

SpecLock == InitLock /\ [][NextLock]_vars

\* The Go scheduler runs every goroutine that can take a step.
SpecLockFair ==
    /\ SpecLock
    /\ \A c \in Callers : WF_vars(ReadAllStep(c))
    /\ WF_vars(CloseStep)

(***************************************************************************)
(* Properties of ReadAll next to Close                                     *)
(***************************************************************************)

\* C34: every Bucket.ReadAll that runs next to a Bucket.Close returns, with
\* the content or with an error, however the acquisitions of the lock are
\* interleaved.
C34_ReadAllTerminates == <>(\A c \in Callers : mp.ra[c].pc = "done")

(***************************************************************************)
(* Properties of the count that Writer.Write returns                       *)
(***************************************************************************)

\* C35: a Writer.Write(p) that returns no error returns len(p), also when it
\* is the call that fills the sniffing buffer and hands the bytes of
\* earlier calls to the driver.
C35_WriteReturnsLen ==
    [][(fw.pc = "open" /\ fw'.calls = fw.calls + 1 /\ fw'.err = "nil")
          => fw'.n = fw'.sent - fw.sent]_vars

(***************************************************************************)
(* The stepwise completion specification: the bucket and the call of       *)
(* SpecComplete, with CompleteMultipartUpload cut where other callers can  *)
(* see the bucket in between: after its writer's Close has returned and    *)
(* before it reads and rewrites the side-record.                           *)
(***************************************************************************)

\* CompleteMultipartUpload after the loop over the parts: its error, or the
\* Close of the writer.
CompleteStoreClosed(c) ==
    IF c.err # "nil" THEN [fs |-> c.fs, err |-> c.err]
    ELSE [fs |-> WriterCloseOf(c, TRUE).fs, err |-> WriterCloseOf(c, TRUE).w.err]

CompleteStoreOpened(s, key, uploadID, v) ==
    IF s.w.pc # "open" THEN [fs |-> s.fs, err |-> s.w.err]
    ELSE CompleteStoreClosed(CopyParts(s, getUploadIDDir(key, uploadID), v.entries, v.parts, 1))

\* CompleteMultipartUpload from its checks to the return of w.Close().
CompleteStore(dir, key, uploadID, v) ==
    IF v.err # "nil" THEN [fs |-> dir, err |-> v.err]
    ELSE CompleteStoreOpened(
             NewTypedWriter(dir, CompleteWriterID, key, v.xa.ContentType, WriterOptionsOf(v.xa)),
             key, uploadID, v)

InitCompleteSteps ==
    /\ \E before \in BucketsBefore, given \in SUBSET (PartNumbers \X PartData),
          parts \in PartLists :
          /\ fs = Uploaded(before, given)
          /\ mp = [pc |-> "steps", given |-> given, before |-> before, parts |-> parts,
                   r |-> NoResult]
    /\ wr = [w \in Writers |-> NoWriter]
    /\ rd = [r \in Readers |-> NoReader]
    /\ it = NoIter
    /\ fw = NoFacadeWriter
    /\ ioFaults = FALSE

CompleteStoreDone(s, v) ==
    IF s.err # "nil"
    THEN ApplyMultipart(s.fs, [mp EXCEPT !.pc = "returned",
                                         !.r = [err |-> s.err, bad |-> v.bad,
                                                info |-> NoObjectInfo]])
    ELSE ApplyMultipart(s.fs, [mp EXCEPT !.pc = "stored"])

\* The checks, the copy of the parts and the Close of the writer.
DoCompleteStore ==
    /\ mp.pc = "steps"
    /\ CompleteStoreDone(
           CompleteStore(fs, MultipartKey, MustGetUUID(1),
                         CompleteValidate(fs, MultipartKey, MustGetUUID(1), mp.parts)),
           CompleteValidate(fs, MultipartKey, MustGetUUID(1), mp.parts))

\* forKey, setAttrs and the removal of the upload.  The checks read the
\* manifest and the parts, which the writer has not touched.
DoCompleteFinish ==
    /\ mp.pc = "stored"
    /\ CompleteDone(
           CompleteFinish(fs, MultipartKey, MustGetUUID(1),
                          CompleteValidate(fs, MultipartKey, MustGetUUID(1), mp.parts)),
           NoBadPart)

NextCompleteSteps == DoCompleteStore \/ DoCompleteFinish

SpecCompleteSteps == InitCompleteSteps /\ [][NextCompleteSteps]_vars

(***************************************************************************)
(* Properties of a completion seen from outside                            *)
(***************************************************************************)

\* The object of the completion can be read at the key.
NewContentVisible ==
    /\ mp.pc \in {"stored", "returned"}
    /\ \A i \in 1..Len(mp.parts) : Resolves(i)
    /\ ReadAll(fs, MultipartKey) = [ok |-> TRUE, data |-> ConcatListed(1)]
    /\ fs # Uploaded(mp.before, mp.given)

\* The two steps together are CompleteMultipartUpload.
StepsAreComplete ==
    mp.pc = "returned" =>
        /\ fs = CompleteMultipartUpload(Uploaded(mp.before, mp.given), MultipartKey,
                                        MustGetUUID(1), mp.parts).fs
        /\ mp.r.err = CompleteMultipartUpload(Uploaded(mp.before, mp.given), MultipartKey,
                                              MustGetUUID(1), mp.parts).err

\* C36: whenever another caller can read the bytes of the completed object
\* at the key, bucket.Attributes gives it the composite ETag and the
\* side-record holds the parts: there is no state in between.
C36_VisibleWithFinalRecord ==
    NewContentVisible =>
        /\ Attributes(fs, MultipartKey).err = "nil"
        /\ Attributes(fs, MultipartKey).attrs.ETag = CompositeETag
        /\ PartsResolved

(***************************************************************************)
(* Properties of the start of an upload                                    *)
(***************************************************************************)

\* NewMultipartUpload after NewTypedWriter, under a context that is
\* cancelled or not.
ManifestWrittenUnder(s, key, canceled, ok) ==
    IF s.w.pc # "open" THEN s
    ELSE WriterCloseOf(WriterWrite(s.fs, [s.w EXCEPT !.ctxErr = canceled], EncodeMeta(key)), ok)

\* bucket.NewMultipartUpload, the n-th call, under a context that is
\* cancelled or not.
NewMultipartUploadUnder(dir, n, key, contentType, opts, canceled, ok) ==
    UploadStarted(
        ManifestWrittenUnder(
            NewTypedWriter(dir, ManifestWriterID, ManifestKey(key, MustGetUUID(n)),
                           contentType, opts),
            key, canceled, ok),
        MustGetUUID(n))

\* The call the next caller of NewMultipartUpload makes.
NextUpload(canceled, ok) ==
    NewMultipartUploadUnder(fs, Len(mp.st) + 1, MultipartKey, "text/plain", NoOpts, canceled, ok)

\* With a live context and working system calls this is NewMultipartUpload.
UnderNothing ==
    NextUpload(FALSE, TRUE)
        = NewMultipartUpload(fs, Len(mp.st) + 1, MultipartKey, "text/plain", NoOpts, TRUE)

\* The upload r started can be used: its manifest is there and
\* NewMultipartWriter opens a part writer for it.
Usable(r) ==
    /\ Pending(r.fs, MultipartKey, r.uploadID)
    /\ NewMultipartWriter(r.fs, PartWriterID, MultipartKey, r.uploadID, 1, NoOpts).w.pc = "open"

\* C37: when NewMultipartUpload returns an upload ID and no error the
\* manifest of the upload is stored and NewMultipartWriter finds the
\* upload; when the manifest could not be stored, as under a cancelled
\* context, it returns an error.
C37_UploadIDMeansStored ==
    \A canceled \in BOOLEAN, ok \in BOOLEAN :
        /\ UnderNothing
        /\ NextUpload(canceled, ok).err = "nil" <=> Usable(NextUpload(canceled, ok))

(***************************************************************************)
(* The contents specification: a bucket filled with objects, with an       *)
(* upload and its parts, and then, with nothing changing any more, listed  *)
(* from the first page to the last.  mp holds the keys of the objects      *)
(* stored, whether the upload was started, and the prefix and the keys of  *)
(* the listing.                                                            *)
(***************************************************************************)

\* A key of the caller whose first directory has a name that begins like
\* the scratch root.
KeyBesideScratch == fileBlobSysTmp \o <<"x", "/", "b">>

ContentKeys == {KeyA, Key_a_a, KeyAB, KeyAC, KeyBesideScratch}

ContentPrefixes == {<<>>, <<"a">>, <<"a", "/">>, fileBlobSysTmp}

\* The keys of all pages: ListPaged with the token of the page before until
\* a page has no NextPageToken.
RECURSIVE ListFrom(_, _, _, _)
ListFrom(dir, prefix, pageSize, pageToken) ==
    IF ListPaged(dir, ListOptions(prefix, <<>>, pageSize, pageToken)).NextPageToken = <<>>
    THEN PageKeys(ListPaged(dir, ListOptions(prefix, <<>>, pageSize, pageToken)))
    ELSE PageKeys(ListPaged(dir, ListOptions(prefix, <<>>, pageSize, pageToken)))
         \o ListFrom(dir, prefix, pageSize,
                     ListPaged(dir, ListOptions(prefix, <<>>, pageSize, pageToken)).NextPageToken)

InitContents ==
    /\ fs = EmptyDir
    /\ wr = [w \in Writers |-> NoWriter]
    /\ rd = [r \in Readers |-> NoReader]
    /\ it = NoIter
    /\ fw = NoFacadeWriter
    /\ ioFaults = FALSE
    /\ mp = [pc |-> "fill", stored |-> {}, started |-> FALSE, prefix |-> <<>>,
             pageSize |-> 0, keys |-> <<>>]

ContentsStored(s, key) ==
    ApplyMultipart(s.fs, [mp EXCEPT !.stored = IF s.w.pc = "done" /\ s.w.err = "nil"
                                               THEN @ \cup {key} ELSE @])

\* A complete write of an object.
DoContentsPut ==
    /\ mp.pc = "fill"
    /\ \E key \in ContentKeys \ mp.stored :
          ContentsStored(WriteAll(fs, 0, key, "text/plain", NoOpts, Payload(0)), key)

ContentsStarted(s) == ApplyMultipart(s.fs, [mp EXCEPT !.started = s.err = "nil"])

DoContentsUpload ==
    /\ mp.pc = "fill"
    /\ ~mp.started
    /\ ContentsStarted(NewMultipartUpload(fs, 1, MultipartKey, "text/plain", NoOpts, TRUE))

\* The upload of a part.
DoContentsPart ==
    /\ mp.pc = "fill"
    /\ mp.started
    /\ Cardinality(PartFiles(fs)) < MaxParts
    /\ \E n \in PartNumbers :
          ApplyMultipart(WritePart(fs, MultipartKey, MustGetUUID(1), n, SmallPart), mp)

\* The listing, all its pages.
DoContentsList ==
    /\ mp.pc = "fill"
    /\ \E prefix \in ContentPrefixes, pageSize \in 0..MaxPageSize :
          ApplyMultipart(fs, [mp EXCEPT !.pc = "listed", !.prefix = prefix,
                                        !.pageSize = pageSize,
                                        !.keys = ListFrom(fs, prefix, pageSize, <<>>)])

NextContents == DoContentsPut \/ DoContentsUpload \/ DoContentsPart \/ DoContentsList

SpecContents == InitContents /\ [][NextContents]_vars

(***************************************************************************)
(* Properties of the contents of a listing                                 *)
(***************************************************************************)

\* The keys of the objects stored that have the prefix of the listing.
StoredUnderPrefix == { k \in mp.stored : HasPrefix(k, mp.prefix) }

\* The keys the listing returned.
Listed == { mp.keys[i] : i \in DOMAIN mp.keys }

\* A listing of the bucket with objects and an upload with a part.
ListedAll ==
    /\ mp.pc = "listed"
    /\ \A k \in mp.stored : ObjectOf(fs, k).ok

\* No page held a side-record, the scratch root, a manifest or a part.
OnlyObjectsListed == ListedAll => Listed \subseteq StoredUnderPrefix

\* C38: the keys of a complete listing of a bucket that does not change are
\* the keys of the objects stored that have the prefix: no file of the
\* side-records or of the uploads is among them and no object is left out.
C38_ListsExactlyObjects == ListedAll => Listed = StoredUnderPrefix

(***************************************************************************)
(* The temporary-file specification: a bucket with a pending upload, one   *)
(* caller with a driver writer, whose Close is cut at its system calls and *)
(* whose system calls can fail, and one caller with a part writer.  mp     *)
(* holds the part writer, which stays as its Close left it.                *)
(***************************************************************************)

\* The ContentMD5 the caller of NewMultipartWriter asks for.
PartMD5Choices == {NoMD5, MD5(BigPart), MD5(SmallPart)}

InitTemp ==
    /\ \E dir \in InitDirs :
          fs = NewMultipartUpload(dir, 1, MultipartKey, "text/plain", NoOpts, TRUE).fs
    /\ wr = [w \in Writers |-> NoWriter]
    /\ rd = [r \in Readers |-> NoReader]
    /\ it = NoIter
    /\ fw = NoFacadeWriter
    /\ ioFaults = TRUE
    /\ mp = [pc |-> "temp", pw |-> NoPartWriter]

TempPart(s) == ApplyMultipart(s.fs, [mp EXCEPT !.pw = s.w])

\* bucket.NewMultipartWriter with opts.ContentMD5 set or not.
DoTempPartOpen ==
    /\ mp.pw.pc = "idle"
    /\ \E n \in PartNumbers, md5 \in PartMD5Choices :
          TempPart([NewMultipartWriter(fs, PartWriterID, MultipartKey, MustGetUUID(1), n, NoOpts)
                       EXCEPT !.w.contentMD5 = md5])

DoTempPartWrite ==
    /\ mp.pw.pc = "open"
    /\ mp.pw.md5hash = <<>>
    /\ \E data \in PartData : TempPart(MultipartWrite(fs, mp.pw, data))

\* multipartWriter.Close under a context that is cancelled or not.
DoTempPartClose ==
    /\ mp.pw.pc = "open"
    /\ \E canceled \in BOOLEAN :
          TempPart(MultipartClose(fs, [mp.pw EXCEPT !.ctxErr = canceled]))

NextTemp == WriterStep(1) \/ DoTempPartOpen \/ DoTempPartWrite \/ DoTempPartClose

SpecTemp == InitTemp /\ [][NextTemp]_vars

(***************************************************************************)
(* Properties of the temporary files                                       *)
(***************************************************************************)

\* The Close of the driver writer w has returned.
DriverClosed(w) == wr[w].pc = "done" /\ wr[w].tmp # <<>>

\* The Close of the part writer has returned.
PartWriterClosed == mp.pw.pc = "done" /\ mp.pw.tmp # <<>>

\* C39: once the Close of a driver writer or of a part writer has returned,
\* with success, after a cancellation or after a digest mismatch, the
\* temporary file of the write is no longer in the bucket's directory.
C39_TempFileGone ==
    /\ \A w \in Writers : DriverClosed(w) => ~Exists(fs, wr[w].tmp)
    /\ PartWriterClosed => ~Exists(fs, mp.pw.tmp)

\* A driver writer closed under a cancelled context and a part writer
\* closed with the wrong digest, both with bytes written to their files.
C39_Witness ==
    /\ DriverClosed(1) /\ wr[1].err = "canceled" /\ wr[1].md5hash # <<>>
    /\ PartWriterClosed /\ mp.pw.err = "BadDigest" /\ mp.pw.md5hash # <<>>
    /\ ~Exists(fs, wr[1].tmp)
    /\ ~Exists(fs, mp.pw.tmp)

(***************************************************************************)
(* Properties of a read of no bytes                                        *)
(***************************************************************************)

\* bucket.NewRangeReader with the system calls it makes on the content
\* file: opened and seeked tell whether os.Open and f.Seek were called; ok
\* is the answer of os.Open.
RangeReaderCalls(dir, key, offset, length, ok) ==
    IF forKey(dir, key).err # "nil"
    THEN [err |-> forKey(dir, key).err, readErr |-> "nil", data |-> <<>>,
          opened |-> FALSE, seeked |-> FALSE]
    ELSE IF ~ok
    THEN [err |-> "Open", readErr |-> "nil", data |-> <<>>, opened |-> TRUE, seeked |-> FALSE]
    ELSE [err |-> "nil", readErr |-> NewRangeReader(dir, key, offset, length).readErr,
          data |-> NewRangeReader(dir, key, offset, length).data,
          opened |-> TRUE, seeked |-> offset > 0]

\* The offsets the facade lets through.
ZeroReadOffsets == { o \in RangeOffsets : o >= 0 }

\* The reader is at end-of-data at once.
AtEnd(r) == r.err = "nil" /\ r.data = <<>> /\ r.readErr = "nil"

\* With the system calls working this is NewRangeReader.
CallsAreReader(key, offset) ==
    /\ RangeReaderCalls(fs, key, offset, 0, TRUE).err = NewRangeReader(fs, key, offset, 0).err
    /\ RangeReaderCalls(fs, key, offset, 0, TRUE).data = NewRangeReader(fs, key, offset, 0).data

\* NewRangeReader with length 0 gives a reader at end-of-data and has not
\* touched the content file: whether os.Open works makes no difference.
UntouchedAtEnd(key, offset) ==
    \A ok \in Outcomes :
        forKey(fs, key).err = "nil" =>
            /\ AtEnd(RangeReaderCalls(fs, key, offset, 0, ok))
            /\ ~RangeReaderCalls(fs, key, offset, 0, ok).opened
            /\ ~RangeReaderCalls(fs, key, offset, 0, ok).seeked

\* C40 as stated: NewRangeReader with length 0 returns a reader that is at
\* end-of-data at once, without opening or seeking in the content file.
C40_ZeroLengthUntouched ==
    \A key \in DriverKeys, offset \in ZeroReadOffsets : UntouchedAtEnd(key, offset)

\* NewRangeReader with length 0 finds the object, opens its file and seeks
\* to a positive offset like every other read; when that works the reader
\* is at end-of-data without a read of the file.
OpenedAtEnd(key, offset) ==
    \A ok \in Outcomes :
        /\ CallsAreReader(key, offset)
        /\ RangeReaderCalls(fs, key, offset, 0, ok).err = "nil"
               <=> (forKey(fs, key).err = "nil" /\ ok)
        /\ RangeReaderCalls(fs, key, offset, 0, ok).err = "nil"
               => /\ AtEnd(RangeReaderCalls(fs, key, offset, 0, ok))
                  /\ RangeReaderCalls(fs, key, offset, 0, ok).opened
                  /\ RangeReaderCalls(fs, key, offset, 0, ok).seeked <=> (offset > 0)

\* C40, amended: NewRangeReader with length 0 returns a reader that is at
\* end-of-data at once and reads nothing of the content file, also for a
\* key at which there is a directory; it opens the file, and seeks in it
\* when the offset is positive, and fails when os.Open fails.
C40_ZeroLengthReadsNothing ==
    \A key \in DriverKeys, offset \in ZeroReadOffsets : OpenedAtEnd(key, offset)

\* An object with bytes after offset 1, of which a read of no bytes
\* returns none, and a directory, of which a read of no bytes does not
\* fail while a read to the end does.
C40_Witness ==
    /\ NewRangeReader(fs, KeyB, 1, -1).data # <<>>
    /\ AtEnd(RangeReaderCalls(fs, KeyB, 1, 0, TRUE))
    /\ IsDir(fs, path(KeyA).path)
    /\ AtEnd(RangeReaderCalls(fs, KeyA, 0, 0, TRUE))
    /\ NewRangeReader(fs, KeyA, 0, -1).readErr # "nil"

====
